---- MODULE Spec2Model ----
(***************************************************************************)
(* pfGWDash bandwidth monitor (src/pfbw.py) with the shared helpers of     *)
(* src/functions.py: the rate calculator, the ceiling table, the history   *)
(* store and the render step, as state machines over the module globals.   *)
(*                                                                         *)
(* Numbers.  Python integers are unbounded and the byte counters live in   *)
(* [0, 2^64).  A number is kept as three limbs                             *)
(*      hi * 2^64  +  mid * 125000  +  lo      (0 <= lo < 125000)          *)
(* so that 2^64 itself is the limb hi = 1 and one unit of mid is one       *)
(* megabit worth of bytes (1,000,000 / 8).  All limbs stay far below 2^31. *)
(* A rate is the exact quotient  bytes * 8 / (secs * 1000000)  kept as the *)
(* pair (bytes, secs); Python's float rounding of that quotient is not     *)
(* modelled.                                                               *)
(***************************************************************************)
EXTENDS Integers, Sequences, FiniteSets, TLC

VARIABLES
    previous_data,        \* pfbw.previous_data: target -> last raw snapshot
    max_bandwidth,        \* pfbw.max_bandwidth: <<display_name, dir>> -> rate
    interface_names,      \* pfbw.interface_names: interface id -> display name
    manual_max_bandwidth, \* pfbw.manual_max_bandwidth: interface id -> Mbps
    min_dynamic_maxbw,    \* pfbw.min_dynamic_maxbw (Mbps)
    last_call,            \* the latest calculate_bandwidth call: arguments and return value
    observed,             \* history variable: rates computed so far per ceiling key
    history_file,         \* content of bandwidth_history.json
    clock,                \* int(time.time())
    last_update,          \* the latest update_bandwidth_history call
    html_page,            \* content of the status page file
    last_render,          \* how the latest generate_html call ended
    interface_names_fetched, \* main's flag of the same name
    schedule,             \* which polls the history exploration has made so far
    auth_file,            \* content of the auth file (config['Session']['auth_file'])
    last_login,           \* the latest login_pfsense call: arguments, file before, outcome
    bw_main,              \* pfbw.main: where the poll loop stands
    gw_main,              \* pfgw.main: where the poll loop stands
    in_flight,            \* per monitor: the login_pfsense call between its load and its save
    history_backup,       \* content of bandwidth_history.json.bak
    last_load,            \* the latest stand-alone load_bandwidth_history call
    data_store,           \* content of pfsense_monitor_data.json
    real_interfaces,      \* pfbw.real_interfaces: interface id -> device name
    last_store            \* the latest save_stored_data and load_stored_data calls

vars == <<previous_data, max_bandwidth, interface_names, manual_max_bandwidth,
          min_dynamic_maxbw, last_call, observed, history_file, clock,
          last_update, html_page, last_render, interface_names_fetched, schedule,
          auth_file, last_login, bw_main, gw_main, in_flight, history_backup, last_load,
          data_store, real_interfaces, last_store>>

calcVars == <<previous_data, max_bandwidth, interface_names, manual_max_bandwidth,
              min_dynamic_maxbw, last_call, observed, interface_names_fetched>>
histVars == <<history_file, clock, last_update, schedule>>
htmlVars == <<html_page, last_render>>
authVars == <<auth_file, last_login, in_flight>>
loopVars == <<bw_main, gw_main>>
loadVars == <<history_backup, last_load>>
storeVars == <<data_store, real_interfaces, last_store>>

-----------------------------------------------------------------------------
(* Dictionaries *)

EmptyDict == [k \in {} |-> 0]

DictSet(d, k, v) == [x \in (DOMAIN d) \cup {k} |-> IF x = k THEN v ELSE d[x]]

DictGet(d, k, default) == IF k \in DOMAIN d THEN d[k] ELSE default

\* dict.update(other)
DictUpdate(d, other) ==
    [x \in (DOMAIN d) \cup (DOMAIN other) |-> IF x \in DOMAIN other THEN other[x] ELSE d[x]]

None == [null |-> TRUE]

-----------------------------------------------------------------------------
(* Unbounded integers in three limbs *)

BytesPerMegabit == 125000

Num(h, m, l) == [hi |-> h, mid |-> m, lo |-> l]

NumNorm(n) ==
    [hi |-> n.hi, mid |-> n.mid + (n.lo \div BytesPerMegabit), lo |-> n.lo % BytesPerMegabit]

NumAdd(a, b) == NumNorm(Num(a.hi + b.hi, a.mid + b.mid, a.lo + b.lo))

NumSub(a, b) == NumNorm(Num(a.hi - b.hi, a.mid - b.mid, a.lo - b.lo))

NumScale(a, k) == NumNorm(Num(a.hi * k, a.mid * k, a.lo * k))

NumLess(a, b) ==
    \/ a.hi < b.hi
    \/ a.hi = b.hi /\ a.mid < b.mid
    \/ a.hi = b.hi /\ a.mid = b.mid /\ a.lo < b.lo

Zero == Num(0, 0, 0)

\* the byte count of m megabits
Megabits(m) == Num(0, m, 0)

-----------------------------------------------------------------------------
(* Rates: bytes * 8 / (secs * 1000000) Mbps *)

Rate(b, s) == [bytes |-> b, secs |-> s]

ZeroRate == Rate(Zero, 1)

\* an integer number of Mbps as a rate
Mbps(m) == Rate(Megabits(m), 1)

RateLess(r, s) == NumLess(NumScale(r.bytes, s.secs), NumScale(s.bytes, r.secs))

RateEq(r, s) == NumScale(r.bytes, s.secs) = NumScale(s.bytes, r.secs)

RateLeq(r, s) == ~RateLess(s, r)

RateAdd(r, s) ==
    Rate(NumAdd(NumScale(r.bytes, s.secs), NumScale(s.bytes, r.secs)), r.secs * s.secs)

RateMax(r, s) == IF RateLess(r, s) THEN s ELSE r

-----------------------------------------------------------------------------
(* functions.py *)

\* log_message(message) takes the message only: a call that also passes
\* level=... raises TypeError before anything is printed.
log_message(level_kwarg) == IF level_kwarg THEN "TypeError" ELSE "logged"

-----------------------------------------------------------------------------
(* pfbw.py: constants *)

COUNTER_MAX == Num(1, 0, 0)

MAX_REASONABLE_MBPS == 20000

HISTORY_RETENTION_PERIOD == 300

HISTORY_MAX_ENTRIES == 100

DefaultMinMaxbw == 1000

-----------------------------------------------------------------------------
(* pfbw.py: rate calculator and ceiling table *)

get_display_name(names, interface_id) ==
    IF interface_id \in DOMAIN names THEN names[interface_id] ELSE interface_id

\* f"{display_name}-in" / f"{display_name}-out"
CeilingKey(display_name, dir) == <<display_name, dir>>

\* One direction of one interface (lines 489-500 and 512-523): the byte delta
\* with the rollover branch, the rate, and the two log_message calls that pass
\* level=.  computed is the rate the division produced, None when the code
\* raised before it (TypeError in the rollover branch, ZeroDivisionError).
direction_rate(current, prev, time_diff) ==
    LET rollover == NumLess(current, prev)
        divisionByZero == time_diff = 0
        raisedAtRollover == rollover /\ log_message(TRUE) = "TypeError"
        bytes_diff == IF rollover
                        THEN NumAdd(NumSub(COUNTER_MAX, prev), current)
                        ELSE NumSub(current, prev)
        megabits == Rate(bytes_diff, time_diff)
        implausible == RateLess(Mbps(MAX_REASONABLE_MBPS), megabits)
        raisedAtSanity == implausible /\ log_message(TRUE) = "TypeError"
    IN  IF raisedAtRollover \/ divisionByZero
          THEN [raised |-> TRUE, computed |-> None]
          ELSE [raised |-> raisedAtSanity, computed |-> megabits]

\* lines 539-544 / 548-553 seeding a new key with the highest ceiling the
\* table holds for the direction instead of the floor
update_ceiling_inherited(mb, key, megabits, floor) ==
    LET same_dir == {k \in DOMAIN mb : k[2] = key[2]}
        highest == IF same_dir = {} THEN Mbps(floor)
                   ELSE LET top == CHOOSE k \in same_dir :
                                      \A l \in same_dir : RateLeq(mb[l], mb[k])
                        IN RateMax(Mbps(floor), mb[top])
        seeded == IF key \notin DOMAIN mb THEN DictSet(mb, key, highest)
                  ELSE IF RateLess(mb[key], Mbps(floor)) THEN DictSet(mb, key, Mbps(floor))
                  ELSE mb
    IN  IF RateLess(seeded[key], megabits) THEN DictSet(seeded, key, megabits) ELSE seeded

\* lines 539-544 / 548-553: seed with the floor, then raise to the rate
update_ceiling(mb, key, megabits, floor) ==
    LET seeded == IF key \notin DOMAIN mb \/ RateLess(mb[key], Mbps(floor))
                    THEN DictSet(mb, key, Mbps(floor))
                    ELSE mb
    IN  IF RateLess(seeded[key], megabits) THEN DictSet(seeded, key, megabits) ELSE seeded

\* the guard of line 472 written with < instead of <=
invalid_time_strict(time_diff) == time_diff < 0

\* line 472
invalid_time(time_diff) == time_diff <= 0

\* line 531 finding no override for any interface
has_manual_override_never(manual, interface_name) == FALSE

\* line 531
has_manual_override(manual, interface_name) == interface_name \in DOMAIN manual

HasValuePair(sample) == "values" \in DOMAIN sample /\ Len(sample.values) >= 2

\* The body of the per-interface loop (lines 437-560) for one interface.
\* Returns the interface's result entry, the ceiling table after it and the
\* rates the two divisions produced (None where the code did not get there).
process_interface(interface_name, interface_data, prev_data, names, manual, floor, mb) ==
    LET entry == [in |-> ZeroRate, out |-> ZeroRate, timestamp |-> 0,
                  display_name |-> get_display_name(names, interface_name),
                  status |-> "unset"]
        Out(e, table, rin, rout) ==
            [result |-> e, max_bandwidth |-> table, rate_in |-> rin, rate_out |-> rout]
        Tag(e, s) == [e EXCEPT !.status = s]
    IN
    IF interface_name \notin DOMAIN prev_data
      THEN Out(Tag(entry, "new_interface"), mb, None, None)
    ELSE LET prev_if == prev_data[interface_name] IN
    IF Len(interface_data) < 2 \/ Len(prev_if) < 2
      THEN Out(Tag(entry, "incomplete_data"), mb, None, None)
    ELSE IF ~HasValuePair(interface_data[1])
      THEN Out(Tag(entry, "invalid_format"), mb, None, None)
    ELSE LET current_timestamp == interface_data[1].values[1]
             stamped == [entry EXCEPT !.timestamp = current_timestamp] IN
    IF ~HasValuePair(prev_if[1])
      THEN Out(Tag(stamped, "invalid_format"), mb, None, None)
    ELSE LET prev_timestamp == prev_if[1].values[1]
             time_diff == current_timestamp - prev_timestamp IN
    IF invalid_time(time_diff)
      THEN Out(Tag(stamped, "invalid_time"), mb, None, None)
    ELSE LET current_in == interface_data[1].values[2]
             prev_in == prev_if[1].values[2] IN
    IF current_in = None \/ prev_in = None
      THEN Out(Tag(stamped, "missing_values"), mb, None, None)
    ELSE LET din == direction_rate(current_in, prev_in, time_diff) IN
    IF din.raised
      THEN Out(Tag(stamped, "error"), mb, din.computed, None)
    ELSE LET with_in == [stamped EXCEPT !.in = din.computed] IN
    \* interface_data[1]['values'][1] and prev_data[..][1]['values'][1]:
    \* KeyError / IndexError when the second sample has no value pair
    IF ~HasValuePair(interface_data[2]) \/ ~HasValuePair(prev_if[2])
      THEN Out(Tag(with_in, "error"), mb, din.computed, None)
    ELSE LET current_out == interface_data[2].values[2]
             prev_out == prev_if[2].values[2] IN
    IF current_out = None \/ prev_out = None
      THEN Out(Tag(with_in, "missing_values"), mb, din.computed, None)
    ELSE LET dout == direction_rate(current_out, prev_out, time_diff) IN
    IF dout.raised
      THEN Out(Tag(with_in, "error"), mb, din.computed, dout.computed)
    ELSE LET done == [with_in EXCEPT !.out = dout.computed, !.status = "ok"]
             interface_display_name == get_display_name(names, interface_name)
             manual_override == has_manual_override(manual, interface_name)
             in_key == CeilingKey(interface_display_name, "in")
             out_key == CeilingKey(interface_display_name, "out")
             table == IF manual_override
                        THEN mb
                        ELSE update_ceiling(update_ceiling(mb, in_key, din.computed, floor),
                                            out_key, dout.computed, floor)
         IN Out(done, table, din.computed, dout.computed)

\* History variable: observed[key] is max(floor, r1, ..., rn) over the rates
\* r1..rn the divisions of lines 496 and 519 have produced so far for that
\* ceiling key on interfaces without a manual override, in iterations that ran
\* to line 526 or left through the handler of line 557.
note_rate(obs, names, manual, floor, interface_name, dir, rate) ==
    IF rate = None \/ interface_name \in DOMAIN manual THEN obs
    ELSE LET key == CeilingKey(get_display_name(names, interface_name), dir)
         IN DictSet(obs, key, RateMax(DictGet(obs, key, Mbps(floor)), rate))

\* the loop dropping the entry of an interface whose iteration raised
merge_result_unless_error(acc, names, manual, floor, interface_name, r) ==
    [results |-> IF r.result.status = "error"
                   THEN acc.results
                   ELSE DictSet(acc.results, interface_name, r.result),
     max_bandwidth |-> r.max_bandwidth,
     observed |-> acc.observed]

\* the loop raising the in ceiling as soon as line 496 has produced a rate,
\* whatever status the iteration ends with
merge_result_ceiling_early(acc, names, manual, floor, interface_name, r) ==
    [results |-> DictSet(acc.results, interface_name, r.result),
     max_bandwidth |-> IF r.rate_in # None /\ ~has_manual_override(manual, interface_name)
                         THEN update_ceiling(r.max_bandwidth,
                                             CeilingKey(get_display_name(names, interface_name), "in"),
                                             r.rate_in, floor)
                         ELSE r.max_bandwidth,
     observed |-> acc.observed]

\* acc: [results, max_bandwidth, observed]; r: what process_interface returned
merge_result(acc, names, manual, floor, interface_name, r) ==
    [results |-> DictSet(acc.results, interface_name, r.result),
     max_bandwidth |-> r.max_bandwidth,
     observed |-> IF r.result.status \in {"ok", "error"}
                    THEN note_rate(note_rate(acc.observed, names, manual, floor,
                                             interface_name, "in", r.rate_in),
                                   names, manual, floor, interface_name, "out", r.rate_out)
                    ELSE acc.observed]

\* The loop of lines 436-560 over the snapshot in its iteration order.
RECURSIVE process_all(_, _, _, _, _, _, _)
process_all(order, current_data, prev_data, names, manual, floor, acc) ==
    IF order = <<>> THEN acc
    ELSE process_all(Tail(order), current_data, prev_data, names, manual, floor,
                     merge_result(acc, names, manual, floor, Head(order),
                                  process_interface(Head(order), current_data[Head(order)],
                                                    prev_data, names, manual, floor,
                                                    acc.max_bandwidth)))

\* line 562 skipped when an interface of the call was tagged 'error'
store_snapshot_unless_error(prev_all, pfsense_name, current_data, results) ==
    IF \E i \in DOMAIN results : results[i].status = "error"
      THEN prev_all
      ELSE DictSet(prev_all, pfsense_name, current_data)

\* line 562: previous_data[pfsense_name] = current_data
store_snapshot(prev_all, pfsense_name, current_data, results) ==
    DictSet(prev_all, pfsense_name, current_data)

\* lines 430-433 without the assignment of line 431
first_snapshot_dropped(prev_all, pfsense_name, current_data, mb, obs) ==
    [results |-> EmptyDict, previous_data |-> prev_all,
     max_bandwidth |-> mb, observed |-> obs, baseline |-> TRUE]

\* lines 430-433: the first snapshot of a target becomes its baseline
first_snapshot(prev_all, pfsense_name, current_data, mb, obs) ==
    [results |-> EmptyDict,
     previous_data |-> DictSet(prev_all, pfsense_name, current_data),
     max_bandwidth |-> mb, observed |-> obs, baseline |-> TRUE]

\* calculate_bandwidth(current_data, pfsense_name) on the globals.
\* order is the iteration order of the current_data dict.
\* Returns [results, previous_data, max_bandwidth, observed, baseline].
calculate_bandwidth(current_data, order, pfsense_name, prev_all, names, manual, floor, mb, obs) ==
    IF current_data = None
      THEN [results |-> EmptyDict, previous_data |-> prev_all, max_bandwidth |-> mb,
            observed |-> obs, baseline |-> FALSE]
    ELSE IF pfsense_name \notin DOMAIN prev_all
      THEN first_snapshot(prev_all, pfsense_name, current_data, mb, obs)
    ELSE
      LET acc == process_all(order, current_data, prev_all[pfsense_name], names, manual, floor,
                             [results |-> EmptyDict, max_bandwidth |-> mb, observed |-> obs])
      IN [results |-> acc.results,
          previous_data |-> store_snapshot(prev_all, pfsense_name, current_data, acc.results),
          max_bandwidth |-> acc.max_bandwidth, observed |-> acc.observed, baseline |-> FALSE]

-----------------------------------------------------------------------------
(* pfbw.py: history store *)

PollBwEvery == 10

\* round(x, 2) of a rate, as a whole number of hundredths of a Mbps
\* (ties go to the even neighbour).  Rates here are below 2^64 bytes/s.
Round2(rate) ==
    LET D == 1250 * rate.secs
        A == rate.bytes.mid * 100
        n2 == (A % rate.secs) * 1250 + rate.bytes.lo
        q == (A \div rate.secs) + (n2 \div D)
        r == n2 % D
    IN  IF 2 * r < D THEN q
        ELSE IF 2 * r > D THEN q + 1
        ELSE IF q % 2 = 0 THEN q ELSE q + 1

\* the file on disk: missing, empty, unparseable, or a JSON document
MissingFile == [kind |-> "missing"]
EmptyFile == [kind |-> "empty"]
CorruptFile == [kind |-> "corrupt"]
JsonFile(data) == [kind |-> "json", data |-> data]

default_history(now) == [timestamp |-> now, interval |-> PollBwEvery, interfaces |-> EmptyDict]

\* lines 169-171 letting the exception go
on_load_error_reraise(now) == [raised |-> TRUE, value |-> None]

\* lines 169-171: except Exception -> log, return default_history
on_load_error(now) == [raised |-> FALSE, value |-> default_history(now)]

\* what the disk does during one load: nothing, a failing read of the
\* history file, a failing copy to the backup file
DiskEvents == {"ok", "read_error", "copy_error"}

\* load_bandwidth_history with the disk: what it returns, whether an
\* exception leaves it, and the backup file afterwards
load_history(file, now, backup, io) ==
    LET Returned(v, b, tried) ==
            [raised |-> FALSE, value |-> v, backup |-> b, backup_attempted |-> tried]
    IN  IF file.kind = "missing" THEN Returned(default_history(now), backup, FALSE)
        ELSE IF io = "read_error"
          THEN [raised |-> on_load_error(now).raised, value |-> on_load_error(now).value,
                backup |-> backup, backup_attempted |-> FALSE]
        ELSE IF file.kind = "empty" THEN Returned(default_history(now), backup, FALSE)
        ELSE IF file.kind = "json" THEN Returned(file.data, backup, FALSE)
        \* json.JSONDecodeError: lines 154-165
        ELSE Returned(default_history(now),
                      IF io = "copy_error" THEN backup ELSE file, TRUE)

\* what a caller gets when the disk works
load_bandwidth_history(file, now) == load_history(file, now, MissingFile, "ok").value

save_bandwidth_history(history_data, now) ==
    JsonFile([history_data EXCEPT !.timestamp = now])

\* sum(in + out for the interfaces with status 'ok') of one target
RECURSIVE total_bw(_, _)
total_bw(order, bandwidth_data) ==
    IF order = <<>> THEN ZeroRate
    ELSE LET data == bandwidth_data[Head(order)]
             rest == total_bw(Tail(order), bandwidth_data)
         IN IF data.status = "ok" THEN RateAdd(RateAdd(data.in, data.out), rest) ELSE rest

\* lines 191-204: all_bandwidth is the sequence of the targets polled in this
\* cycle, each [name, results, order]; returns the index of the active
\* firewall, 0 when there is none.
RECURSIVE pick_active(_, _, _, _)
pick_active(all_bandwidth, i, active, max_total_bw) ==
    IF i > Len(all_bandwidth)
      THEN (IF active = 0 /\ Len(all_bandwidth) > 0 THEN 1 ELSE active)
      ELSE LET t == total_bw(all_bandwidth[i].order, all_bandwidth[i].results)
           IN IF RateLess(max_total_bw, t)
                THEN pick_active(all_bandwidth, i + 1, i, t)
                ELSE pick_active(all_bandwidth, i + 1, active, max_total_bw)

\* lines 191-204 keeping the last of the targets with the highest total
last_highest(all_bandwidth) ==
    IF all_bandwidth = <<>> THEN 0
    ELSE LET total(i) == total_bw(all_bandwidth[i].order, all_bandwidth[i].results)
         IN CHOOSE a \in DOMAIN all_bandwidth :
               /\ \A i \in DOMAIN all_bandwidth : RateLeq(total(i), total(a))
               /\ \A j \in DOMAIN all_bandwidth : j > a => RateLess(total(j), total(a))

\* lines 191-204 taking the first reporting target whatever the totals
first_reporting(all_bandwidth) == IF all_bandwidth = <<>> THEN 0 ELSE 1

active_firewall(all_bandwidth) == pick_active(all_bandwidth, 1, 0, ZeroRate)

SelectSeq2(s, cutoff_time) ==
    LET Keep(entry) == entry[1] >= cutoff_time IN SelectSeq(s, Keep)

\* lines 227-242 inserting a point only when its rounded value is not zero
append_point_skipping_zero(series, current_time, value, cutoff_time) ==
    LET inserted == IF value = 0 THEN series ELSE <<<<current_time, value>>>> \o series
        recent == SelectSeq2(inserted, cutoff_time)
    IN  IF Len(recent) > HISTORY_MAX_ENTRIES
          THEN SubSeq(recent, 1, HISTORY_MAX_ENTRIES)
          ELSE recent

\* lines 227-237 without the count truncation of lines 239-242
append_point_untruncated(series, current_time, value, cutoff_time) ==
    SelectSeq2(<<<<current_time, value>>>> \o series, cutoff_time)

\* lines 227-242 for one direction: insert at the front, drop by age, cut to 100
append_point(series, current_time, value, cutoff_time) ==
    LET inserted == <<<<current_time, value>>>> \o series
        recent == SelectSeq2(inserted, cutoff_time)
    IN  IF Len(recent) > HISTORY_MAX_ENTRIES
          THEN SubSeq(recent, 1, HISTORY_MAX_ENTRIES)
          ELSE recent

\* lines 212-242: the loop over the active firewall's interfaces
RECURSIVE append_all(_, _, _, _, _)
append_all(order, bandwidth_data, interfaces, current_time, cutoff_time) ==
    IF order = <<>> THEN interfaces
    ELSE
      LET interface_id == Head(order)
          data == bandwidth_data[interface_id]
          display_name == data.display_name
          series == IF display_name \in DOMAIN interfaces
                      THEN interfaces[display_name]
                      ELSE [in |-> <<>>, out |-> <<>>]
          updated == [in |-> append_point(series.in, current_time, Round2(data.in), cutoff_time),
                      out |-> append_point(series.out, current_time, Round2(data.out), cutoff_time)]
      IN IF data.status # "ok"
           THEN append_all(Tail(order), bandwidth_data, interfaces, current_time, cutoff_time)
           ELSE append_all(Tail(order), bandwidth_data,
                           DictSet(interfaces, display_name, updated), current_time, cutoff_time)

\* update_bandwidth_history(all_bandwidth) at time now: the file afterwards
update_bandwidth_history(all_bandwidth, file, now) ==
    LET history_data == load_bandwidth_history(file, now)
        current_time == now
        cutoff_time == current_time - HISTORY_RETENTION_PERIOD
        active == active_firewall(all_bandwidth)
    IN  IF active = 0 THEN file
        ELSE save_bandwidth_history(
                 [history_data EXCEPT !.interfaces =
                     append_all(all_bandwidth[active].order, all_bandwidth[active].results,
                                history_data.interfaces, current_time, cutoff_time)],
                 now)

-----------------------------------------------------------------------------
(* pfbw.py: data store *)

\* JSON text of a Python value: null for None, a number literal for an int or
\* a float (float(repr(x)) is x); str keys and str values are written as they are
JsonNull == [json |-> "null"]
JsonNumber(x) == [json |-> "number", repr |-> x]

\* json.dump / json.load of one sample {'key': ..., 'values': [timestamp, counter]}
dump_sample(sample) ==
    IF "values" \in DOMAIN sample
      THEN LET values == sample.values
           IN [sample EXCEPT !.values =
                  [k \in DOMAIN values |->
                      IF k = 1 THEN JsonNumber(values[k])
                      ELSE IF values[k] = None THEN JsonNull ELSE JsonNumber(values[k])]]
      ELSE sample
load_sample(doc) ==
    IF "values" \in DOMAIN doc
      THEN LET values == doc.values
           IN [doc EXCEPT !.values =
                  [k \in DOMAIN values |->
                      IF values[k].json = "null" THEN None ELSE values[k].repr]]
      ELSE doc

\* the same for previous_data: target -> interface id -> list of samples
dump_raw(raw) ==
    [t \in DOMAIN raw |-> [i \in DOMAIN raw[t] |->
        [k \in DOMAIN raw[t][i] |-> dump_sample(raw[t][i][k])]]]
load_raw(doc) ==
    [t \in DOMAIN doc |-> [i \in DOMAIN doc[t] |->
        [k \in DOMAIN doc[t][i] |-> load_sample(doc[t][i][k])]]]

\* a dict of numbers
dump_numbers(d) == [k \in DOMAIN d |-> JsonNumber(d[k])]
load_numbers(doc) == [k \in DOMAIN doc |-> doc[k].repr]

\* the five globals load_stored_data returns and save_stored_data is given
Memory(raw, names, last_updated, real_if, mb) ==
    [previous_data |-> raw, interface_names |-> names,
     interface_names_last_updated |-> last_updated,
     real_interfaces |-> real_if, max_bandwidth |-> mb]
NoMemory == Memory(EmptyDict, EmptyDict, EmptyDict, EmptyDict, EmptyDict)

\* save_stored_data(...) at time now: the file afterwards.  polling_times
\* holds timings, which are not modelled.
save_stored_data(raw_bandwidth_data, names, last_updated, real_if, mb, now) ==
    JsonFile([raw_bandwidth_data |-> dump_raw(raw_bandwidth_data),
              interface_names |-> names,
              interface_names_updated |-> dump_numbers(last_updated),
              real_interfaces |-> real_if,
              max_bandwidth |-> dump_numbers(mb),
              polling_times |-> EmptyDict,
              timestamp |-> JsonNumber(now)])

\* load_stored_data reading the raw counters under the key 'previous_data'
load_stored_data_misnamed(file) ==
    IF file.kind # "json" THEN NoMemory
    ELSE LET data == file.data
         IN Memory(IF "previous_data" \in DOMAIN data
                     THEN load_raw(data.previous_data) ELSE EmptyDict,
                   IF "interface_names" \in DOMAIN data THEN data.interface_names ELSE EmptyDict,
                   IF "interface_names_updated" \in DOMAIN data
                     THEN load_numbers(data.interface_names_updated) ELSE EmptyDict,
                   IF "real_interfaces" \in DOMAIN data THEN data.real_interfaces ELSE EmptyDict,
                   IF "max_bandwidth" \in DOMAIN data
                     THEN load_numbers(data.max_bandwidth) ELSE EmptyDict)

\* load_stored_data(): five empty dicts when there is no file (line 87) or
\* when reading it raises (lines 89-91), else the five keys of the document,
\* each {} when absent
load_stored_data(file) ==
    IF file.kind # "json" THEN NoMemory
    ELSE LET data == file.data
         IN Memory(IF "raw_bandwidth_data" \in DOMAIN data
                     THEN load_raw(data.raw_bandwidth_data) ELSE EmptyDict,
                   IF "interface_names" \in DOMAIN data THEN data.interface_names ELSE EmptyDict,
                   IF "interface_names_updated" \in DOMAIN data
                     THEN load_numbers(data.interface_names_updated) ELSE EmptyDict,
                   IF "real_interfaces" \in DOMAIN data THEN data.real_interfaces ELSE EmptyDict,
                   IF "max_bandwidth" \in DOMAIN data
                     THEN load_numbers(data.max_bandwidth) ELSE EmptyDict)

-----------------------------------------------------------------------------
(* pfbw.py: render step *)

\* config['Bandwidth']['interfaces']
ConfigInterfaces == <<"wan", "lan">>

NotWritten == [written |-> FALSE]

\* lines 633-652: the effective ceiling table, built interface by interface;
\* each iteration ends in a log_message call that passes level="DEBUG".
RECURSIVE build_effective(_, _, _, _, _, _)
build_effective(ids, names, manual, floor, mb, acc) ==
    IF ids = <<>> THEN [raised |-> FALSE, effective |-> acc]
    ELSE
      LET interface_id == Head(ids)
          display_name == get_display_name(names, interface_id)
          in_key == CeilingKey(display_name, "in")
          out_key == CeilingKey(display_name, "out")
          manual_val == Mbps(manual[interface_id])
          dynamic_in == DictGet(mb, in_key, Mbps(floor))
          dynamic_out == DictGet(mb, out_key, Mbps(floor))
          next == IF interface_id \in DOMAIN manual
                    THEN DictSet(DictSet(acc, in_key, manual_val), out_key, manual_val)
                    ELSE DictSet(DictSet(acc, in_key, dynamic_in), out_key, dynamic_out)
      IN IF display_name = ""
           THEN build_effective(Tail(ids), names, manual, floor, mb, acc)
         ELSE IF log_message(TRUE) = "TypeError"
           THEN [raised |-> TRUE, effective |-> next]
         ELSE build_effective(Tail(ids), names, manual, floor, mb, next)

\* lines 607-623: the newest point of every allowed series
latest_bandwidth(interfaces, allowed) ==
    [dn \in (DOMAIN interfaces) \cap allowed |->
        LET h == interfaces[dn]
        IN [in |-> IF h.in # <<>> THEN h.in[1][2] ELSE 0,
            out |-> IF h.out # <<>> THEN h.out[1][2] ELSE 0,
            timestamp |-> LET a == IF h.in # <<>> THEN h.in[1][1] ELSE 0
                              b == IF h.out # <<>> THEN h.out[1][1] ELSE 0
                          IN IF a > b THEN a ELSE b]]

\* generate_html with config['Bandwidth']['interfaces'] giving
\* ordered_interface_ids: what it writes to the page file, or that it raised
generate_html_for(ordered_interface_ids, file, now, names, manual, floor, mb) ==
    LET bandwidth_history == load_bandwidth_history(file, now)
        allowed_display_names ==
            {get_display_name(names, ordered_interface_ids[i]) :
                i \in DOMAIN ordered_interface_ids}
        eff == build_effective(ordered_interface_ids, names, manual, floor, mb, EmptyDict)
    IN  IF eff.raised
          THEN [raised |-> TRUE, page |-> NotWritten]
          ELSE [raised |-> FALSE,
                page |-> [written |-> TRUE,
                          max_bandwidth |-> eff.effective,
                          latest_bandwidth |->
                              latest_bandwidth(bandwidth_history.interfaces, allowed_display_names),
                          bandwidth_history |->
                              [dn \in (DOMAIN bandwidth_history.interfaces) \cap allowed_display_names
                                  |-> bandwidth_history.interfaces[dn]],
                          ordered_interfaces |-> ordered_interface_ids]]

\* generate_html under the configuration 'interfaces = wan, lan'
generate_html(file, now, names, manual, floor, mb) ==
    generate_html_for(ConfigInterfaces, file, now, names, manual, floor, mb)

-----------------------------------------------------------------------------
(* functions.py and pfgw.py: credential store and login *)

\* timedelta(hours=...), in seconds
SecondsPerHour == 3600

\* config['Session']['expiry_hours']
ExpiryHours == 1

\* datetime.isoformat() of a time of clock seconds, as its hour, minute and
\* second fields, and datetime.fromisoformat() reading such fields back
isoformat(t) == <<t \div 3600, (t % 3600) \div 60, t % 60>>
fromisoformat(str) == str[1] * 3600 + str[2] * 60 + str[3]

\* load_auth_data: json.load raises on an unparseable file (no handler); a
\* missing file gives {}; 'expiry' strings become datetimes
load_auth_data(file) ==
    IF file.kind = "missing" THEN [raised |-> FALSE, data |-> EmptyDict]
    ELSE IF file.kind # "json" THEN [raised |-> TRUE, data |-> EmptyDict]
    ELSE [raised |-> FALSE,
          data |-> [pfsense \in DOMAIN file.data |->
                      IF "expiry" \in DOMAIN file.data[pfsense]
                        THEN [file.data[pfsense] EXCEPT !.expiry = fromisoformat(@)]
                        ELSE file.data[pfsense]]]

\* save_auth_data: every entry written, 'expiry' datetimes as strings
save_auth_data(auth_data) ==
    JsonFile([pfsense \in DOMAIN auth_data |->
                IF "expiry" \in DOMAIN auth_data[pfsense]
                  THEN [auth_data[pfsense] EXCEPT !.expiry = isoformat(@)]
                  ELSE auth_data[pfsense]])

\* line 100 with <= in place of <
credential_valid_inclusive(auth_info, now) ==
    "expiry" \in DOMAIN auth_info /\ now <= auth_info.expiry

\* line 100: 'expiry' in auth_data[name] and datetime.now() < auth_data[name]['expiry']
credential_valid(auth_info, now) ==
    "expiry" \in DOMAIN auth_info /\ now < auth_info.expiry

\* lines 136-139 updating the prior entry instead of replacing it
store_credential_merged(auth_data, pfsense_name, cookies, now) ==
    LET fresh == [cookies |-> cookies, expiry |-> now + ExpiryHours * SecondsPerHour]
    IN DictSet(auth_data, pfsense_name,
               IF pfsense_name \in DOMAIN auth_data
                 THEN fresh @@ auth_data[pfsense_name]
                 ELSE fresh)

\* lines 136-139: auth_data[pfsense_name] = {'cookies': ..., 'expiry': now + ttl}
store_credential(auth_data, pfsense_name, cookies, now) ==
    DictSet(auth_data, pfsense_name,
            [cookies |-> cookies, expiry |-> now + ExpiryHours * SecondsPerHour])

Session(cookies) == [cookies |-> cookies]

LoginEnded(outcome, session, file) == [outcome |-> outcome, session |-> session, file |-> file]

\* lines 98-105: the cache is loaded and a stored credential is looked up;
\* "fresh" when the code goes on to line 107
lookup_credential(file, pfsense_name, now) ==
    LET loaded == load_auth_data(file)
    IN  IF loaded.raised THEN "load_error"
        ELSE IF pfsense_name \in DOMAIN loaded.data
                  /\ credential_valid(loaded.data[pfsense_name], now)
          THEN "reused"
        ELSE "fresh"

\* lines 107-144 with a rejected login writing the cache back without the
\* target's entry
authenticate_dropping_stale(auth_data, file, pfsense_name, now, reply) ==
    IF reply.kind = "connection_error" THEN LoginEnded("connection_error", None, file)
    ELSE IF reply.kind = "no_csrf" THEN LoginEnded("no_csrf", None, file)
    ELSE IF reply.kind = "dashboard"
      THEN LoginEnded("logged_in", Session(reply.cookies),
                      save_auth_data(store_credential(auth_data, pfsense_name,
                                                      reply.cookies, now)))
    ELSE LoginEnded("login_failed", None,
                    save_auth_data([t \in (DOMAIN auth_data) \ {pfsense_name} |-> auth_data[t]]))

\* lines 107-144: a fresh authentication at time now with the cache auth_data
\* that line 98 loaded; file is the auth file as it is when line 140 writes it
authenticate(auth_data, file, pfsense_name, now, reply) ==
    IF reply.kind = "connection_error" THEN LoginEnded("connection_error", None, file)
    ELSE IF reply.kind = "no_csrf" THEN LoginEnded("no_csrf", None, file)
    ELSE IF reply.kind = "dashboard"
      THEN LoginEnded("logged_in", Session(reply.cookies),
                      save_auth_data(store_credential(auth_data, pfsense_name,
                                                      reply.cookies, now)))
    ELSE LoginEnded("login_failed", None, file)

\* login_pfsense(pfsense_config) at time now, reply being what the target
\* answers to a fresh authentication.  outcome: "load_error" (json.load
\* raised), "reused", "connection_error" (requests raised), "no_csrf" and
\* "login_failed" (None returned), "logged_in".
login_pfsense(file, pfsense_name, now, reply) ==
    LET found == lookup_credential(file, pfsense_name, now)
        auth_data == load_auth_data(file).data
    IN  IF found = "load_error" THEN LoginEnded("load_error", None, file)
        ELSE IF found = "reused"
          THEN LoginEnded("reused", Session(auth_data[pfsense_name].cookies), file)
        ELSE authenticate(auth_data, file, pfsense_name, now, reply)

\* pfgw.py carries its own copy of login_pfsense, load_auth_data and
\* save_auth_data, statement for statement the same
gw_login_pfsense(file, pfsense_name, now, reply) ==
    login_pfsense(file, pfsense_name, now, reply)

-----------------------------------------------------------------------------
(* Raw snapshots fed to the rate calculator *)

Targets == {"fw1", "fw2"}

TopMinus100 == Num(1, -1, 124900)    \* 2^64 - 100
Bytes50 == Num(0, 0, 50)

Sample(k, ts, counter) == [key |-> k, values |-> <<ts, counter>>]
Good(ts, cin, cout) == <<Sample("in", ts, cin), Sample("out", ts, cout)>>

G1 == Good(1, Zero, Zero)
G2 == Good(2, Bytes50, Megabits(1500))
G3 == Good(3, Megabits(3000), Megabits(24000))
G4 == Good(2, TopMinus100, Zero)
G5 == Good(3, Bytes50, Zero)
OneSample == <<Sample("in", 2, Zero)>>
NoValuesIn == <<[key |-> "in"], Sample("out", 2, Zero)>>
NoValuesOut == <<Sample("in", 3, Bytes50), [key |-> "out"]>>
NullIn == Good(3, None, Zero)
NullOut == Good(3, Bytes50, None)

WanData == {G1, G2, G3, G4, G5, OneSample, NoValuesIn, NoValuesOut, NullIn, NullOut}
WanWithLan == {G1, G2, G3, OneSample, NoValuesOut}
LanData == {G1, G2, OneSample}

\* fw1 reports wan alone or wan and lan; fw2 reports wan
Fw1Snapshots ==
    [{"wan"} -> WanData]
        \cup {s \in [{"wan", "lan"} -> WanWithLan \cup LanData] :
                 s["wan"] \in WanWithLan /\ s["lan"] \in LanData}
Fw2Snapshots == [{"wan"} -> {G2}]

SnapshotsOf(t) == IF t = "fw1" THEN Fw1Snapshots ELSE Fw2Snapshots

\* the iteration orders of a dict with these keys
Orders(keys) ==
    {o \in [1..Cardinality(keys) -> keys] : \A i, j \in DOMAIN o : i # j => o[i] # o[j]}

StoredNames == ("wan" :> "WAN") @@ ("lan" :> "LAN")
NameMappings == {("wan" :> "UPLINK")}
ManualConfig == ("lan" :> 500)

\* what fw1 reports where the ceilings and the page are explored
CeilingSnapshots ==
    [{"wan"} -> {G1, G3}]
        \cup {s \in [{"wan", "lan"} -> {G1, G2, G3}] : s["lan"] \in {G1, G2}}

NoCall == [called |-> FALSE, pfsense_name |-> "", current_data |-> EmptyDict,
           had_previous |-> FALSE, prev_data |-> EmptyDict, results |-> EmptyDict]
NoUpdate == [called |-> FALSE, all_bandwidth |-> <<>>, now |-> 0, active |-> 0]

\* session cookies a target hands out, and its answers to a fresh authentication
Cookies == {"sid-a", "sid-b"}
ServerReplies ==
    {[kind |-> "dashboard", cookies |-> c] : c \in Cookies}
        \cup {[kind |-> k, cookies |-> ""] : k \in {"no_csrf", "rejected", "connection_error"}}

\* auth files a run can find: none, one that does not parse, an entry written
\* without an expiry, and an entry of an older layout that expires at 1800 s
LegacyEntry == [cookies |-> "sid-old"]
OlderEntry == [cookies |-> "sid-old", expiry |-> isoformat(1800), sessid |-> "tok"]
AuthFiles ==
    {MissingFile, CorruptFile,
     JsonFile("fw1" :> LegacyEntry), JsonFile("fw1" :> OlderEntry)}

Scripts == {"pfbw", "pfgw"}
NotInFlight == [busy |-> FALSE, pfsense_name |-> "", auth_data |-> EmptyDict,
                before |-> MissingFile]

NoLoad == [called |-> FALSE, file |-> MissingFile, now |-> 0, io |-> "ok",
           raised |-> FALSE, value |-> None, backup_attempted |-> FALSE]

\* no save_stored_data and no load_stored_data call yet
\* memory is what the latest save wrote; at_restart is what the file held
\* by the saves of the process that ended, loaded is what line 680 returned
NoStore == [saved |-> FALSE, memory |-> NoMemory,
            restarts |-> 0, restarted |-> FALSE, had_file |-> FALSE, at_restart |-> NoMemory,
            loaded |-> NoMemory]

NoLogin == [called |-> FALSE, script |-> "", pfsense_name |-> "", now |-> 0,
            before |-> MissingFile, outcome |-> "", session |-> None]
\* pfbw.main before the process is started.  polled, events, names_requested
\* (whether get_interface_names was called for the target), failed_firewalls
\* and current_calculated_bandwidth belong to the running cycle; done is the
\* cycle that ended last
NoCycle == [cycle |-> 0, polled |-> <<>>, events |-> <<>>, reported |-> <<>>, steps |-> <<>>]
BwNotStarted == [pc |-> "not_started", daemon_mode |-> FALSE, cycle |-> 0, idx |-> 0,
                 interfaces |-> <<>>, poll_every |-> 0,
                 names_last_updated |-> EmptyDict, polled |-> <<>>, events |-> <<>>,
                 names_requested |-> <<>>,
                 failed_firewalls |-> <<>>, current_calculated_bandwidth |-> <<>>,
                 raised |-> "", done |-> NoCycle]
\* the gateway row parse_gateway_status built last
NoGateway == [parsed |-> FALSE]

\* pfgw.main before the process is started; all_gateways, polled and events
\* belong to the running cycle, page is the targets on the gateway page, slept
\* the number of time.sleep calls made
GwNotStarted == [pc |-> "not_started", daemon_mode |-> FALSE, cycle |-> 0, idx |-> 0,
                 all_gateways |-> <<>>, polled |-> <<>>, events |-> <<>>, raised |-> "",
                 page |-> <<>>, slept |-> 0, gateway |-> NoGateway]

-----------------------------------------------------------------------------
(* The rate calculator, the interface names and the render step *)

InitGlobals ==
    /\ previous_data = EmptyDict
    /\ max_bandwidth = EmptyDict
    /\ interface_names \in {EmptyDict, StoredNames}
    /\ manual_max_bandwidth = ManualConfig
    /\ min_dynamic_maxbw = DefaultMinMaxbw
    /\ last_call = NoCall
    /\ observed = EmptyDict
    /\ interface_names_fetched = FALSE
    /\ history_file = MissingFile
    /\ clock = 0
    /\ last_update = NoUpdate
    /\ schedule = [free |-> 0, steady |-> 0, closed |-> FALSE]
    /\ html_page = NotWritten
    /\ last_render = "none"
    /\ last_login = NoLogin
    /\ history_backup = MissingFile
    /\ last_load = NoLoad
    /\ data_store = MissingFile
    /\ real_interfaces = EmptyDict
    /\ last_store = NoStore
    /\ in_flight = [script \in Scripts |-> NotInFlight]
    /\ bw_main = BwNotStarted
    /\ gw_main = GwNotStarted

Init == InitGlobals /\ auth_file = MissingFile

\* main line 737: calculated_bw = calculate_bandwidth(raw_data, name).
\* track says whether the history variable observed is kept up to date.
Calc(t, current_data, order, track) ==
    \E r \in {calculate_bandwidth(current_data, order, t, previous_data, interface_names,
                                 manual_max_bandwidth, min_dynamic_maxbw, max_bandwidth,
                                 observed)} :
       /\ previous_data' = r.previous_data
       /\ max_bandwidth' = r.max_bandwidth
       /\ observed' = IF track THEN r.observed ELSE observed
       /\ last_call' = [called |-> TRUE, pfsense_name |-> t, current_data |-> current_data,
                        had_previous |-> t \in DOMAIN previous_data,
                        prev_data |-> DictGet(previous_data, t, EmptyDict),
                        results |-> r.results]
       /\ UNCHANGED <<interface_names, manual_max_bandwidth, min_dynamic_maxbw,
                      interface_names_fetched>>
       /\ UNCHANGED histVars /\ UNCHANGED htmlVars
       /\ UNCHANGED authVars /\ UNCHANGED loopVars /\ UNCHANGED loadVars /\ UNCHANGED storeVars

CalculateBandwidth ==
    \E t \in Targets : \E current_data \in SnapshotsOf(t) :
      \E order \in Orders(DOMAIN current_data) : Calc(t, current_data, order, FALSE)

\* what the interfaces widget gives as device names
RealIfMappings == ("wan" :> "igb0") @@ ("lan" :> "igb1")

\* a save_stored_data call of main on globals as given
SaveAs(names, last_updated, real_if) ==
    /\ data_store' = save_stored_data(previous_data, names, last_updated, real_if,
                                      max_bandwidth, clock)
    /\ last_store' = [last_store EXCEPT
                        !.saved = TRUE,
                        !.memory = Memory(previous_data, names, last_updated, real_if,
                                          max_bandwidth)]

\* main lines 716-720 and 726: the interface names are fetched and merged in
RefreshInterfaceNames ==
    /\ ~interface_names_fetched
    /\ \E name_mappings \in NameMappings :
         interface_names' = DictUpdate(interface_names, name_mappings)
    /\ interface_names_fetched' = TRUE
    /\ UNCHANGED <<previous_data, max_bandwidth, manual_max_bandwidth, min_dynamic_maxbw,
                   last_call, observed>>
    /\ UNCHANGED histVars /\ UNCHANGED htmlVars
    /\ UNCHANGED authVars /\ UNCHANGED loopVars /\ UNCHANGED loadVars /\ UNCHANGED storeVars

\* main line 779: generate_html(...)
GenerateHtml ==
    LET r == generate_html(history_file, clock, interface_names, manual_max_bandwidth,
                           min_dynamic_maxbw, max_bandwidth)
    IN /\ last_render' = IF r.raised THEN "raised" ELSE "written"
       /\ html_page' = IF r.raised THEN html_page ELSE r.page
       /\ history_backup' = load_history(history_file, clock, history_backup, "ok").backup
       /\ UNCHANGED last_load /\ UNCHANGED storeVars
       /\ UNCHANGED calcVars /\ UNCHANGED histVars
       /\ UNCHANGED authVars /\ UNCHANGED loopVars

Next == CalculateBandwidth

Spec == Init /\ [][Next]_vars

-----------------------------------------------------------------------------
(* The ceiling table under renames, with the render step *)

CalculateBandwidthTracked ==
    \E current_data \in CeilingSnapshots :
      \E order \in Orders(DOMAIN current_data) : Calc("fw1", current_data, order, TRUE)

NextCeiling == CalculateBandwidthTracked \/ RefreshInterfaceNames \/ GenerateHtml

SpecCeiling == Init /\ [][NextCeiling]_vars

-----------------------------------------------------------------------------
(* The history store over a run of poll cycles *)

MaxSteadyPolls == 150
MaxFreePolls == 2

ResultEntry(dn, rin, rout, st) ==
    [in |-> rin, out |-> rout, timestamp |-> 0, display_name |-> dn, status |-> st]

\* 12.35 / 0.0004 Mbps on WAN, 375 / 1.25 Mbps on LAN
WanOk == ResultEntry("WAN", Rate(Num(0, 12, 43750), 1), Rate(Bytes50, 1), "ok")
LanOk == ResultEntry("LAN", Rate(Megabits(750), 2), Rate(Num(0, 5, 0), 4), "ok")
LanStale == ResultEntry("LAN", ZeroRate, ZeroRate, "invalid_time")
WanBusy == ResultEntry("WAN", Rate(Megabits(1500), 1), Rate(Megabits(300), 1), "ok")
WanIdle == ResultEntry("WAN", Rate(Megabits(2), 1), Rate(Megabits(1), 1), "ok")

\* what main hands to update_bandwidth_history: the targets that reported in
\* this cycle, in poll order
CycleBoth ==
    <<[name |-> "fw1", order |-> <<"wan", "lan">>,
       results |-> ("wan" :> WanOk) @@ ("lan" :> LanOk)]>>
CycleWanOnly ==
    <<[name |-> "fw1", order |-> <<"wan", "lan">>,
       results |-> ("wan" :> WanOk) @@ ("lan" :> LanStale)]>>
CycleFailover ==
    <<[name |-> "fw1", order |-> <<"wan", "lan">>,
       results |-> ("wan" :> WanOk) @@ ("lan" :> LanOk)],
      [name |-> "fw2", order |-> <<"wan">>, results |-> ("wan" :> WanBusy)]>>

CycleStandby ==
    <<[name |-> "fw1", order |-> <<"wan", "lan">>,
       results |-> ("wan" :> WanOk) @@ ("lan" :> LanOk)],
      [name |-> "fw2", order |-> <<"wan">>, results |-> ("wan" :> WanIdle)]>>

FreeCycles == {CycleBoth, CycleWanOnly, CycleFailover, CycleStandby}
FreeSteps == {1, 301}

\* main line 774, dt seconds after the previous cycle
UpdateHistory(all_bandwidth, dt) ==
    /\ clock' = clock + dt
    /\ history_file' = update_bandwidth_history(all_bandwidth, history_file, clock')
    /\ last_update' = [called |-> TRUE, all_bandwidth |-> all_bandwidth, now |-> clock',
                       active |-> active_firewall(all_bandwidth)]
    /\ history_backup' = load_history(history_file, clock', history_backup, "ok").backup
    /\ UNCHANGED last_load /\ UNCHANGED storeVars
    /\ UNCHANGED calcVars /\ UNCHANGED htmlVars
    /\ UNCHANGED authVars /\ UNCHANGED loopVars

\* a cycle one second after the last in which both interfaces are 'ok'
SteadyPoll ==
    /\ ~schedule.closed
    /\ schedule.steady < MaxSteadyPolls
    /\ UpdateHistory(CycleBoth, 1)
    /\ schedule' = [schedule EXCEPT !.steady = @ + 1]

\* any cycle after any pause
FreePoll ==
    /\ schedule.free < MaxFreePolls
    /\ \E dt \in FreeSteps : \E all_bandwidth \in FreeCycles : UpdateHistory(all_bandwidth, dt)
    /\ schedule' = [schedule EXCEPT !.free = @ + 1, !.closed = (schedule.steady > 0)]

NextHistory == SteadyPoll \/ FreePoll

SpecHistory == Init /\ [][NextHistory]_vars

-----------------------------------------------------------------------------
(* The credential store under logins of both monitors *)

MaxAuthClock == 7200

InitAuth == InitGlobals /\ auth_file \in AuthFiles

\* one login_pfsense call by one of the monitors
Login(script, pfsense_name) ==
    \E reply \in ServerReplies :
      \E r \in {IF script = "pfgw"
                  THEN gw_login_pfsense(auth_file, pfsense_name, clock, reply)
                  ELSE login_pfsense(auth_file, pfsense_name, clock, reply)} :
         /\ auth_file' = r.file
         /\ last_login' = [called |-> TRUE, script |-> script, pfsense_name |-> pfsense_name,
                           now |-> clock, before |-> auth_file, outcome |-> r.outcome,
                           session |-> r.session]
         /\ UNCHANGED <<history_file, clock, last_update, schedule, in_flight>>
         /\ UNCHANGED calcVars /\ UNCHANGED htmlVars /\ UNCHANGED loopVars /\ UNCHANGED loadVars /\ UNCHANGED storeVars

LoginStep == \E script \in Scripts : \E pfsense_name \in Targets : Login(script, pfsense_name)

\* half an hour goes by between polls
TimePasses ==
    /\ clock < MaxAuthClock
    /\ clock' = clock + 1800
    /\ UNCHANGED <<history_file, last_update, schedule>>
    /\ UNCHANGED calcVars /\ UNCHANGED htmlVars /\ UNCHANGED authVars /\ UNCHANGED loopVars /\ UNCHANGED loadVars /\ UNCHANGED storeVars

NextAuth == LoginStep \/ TimePasses

SpecAuth == InitAuth /\ [][NextAuth]_vars

-----------------------------------------------------------------------------
(* The credential store with both monitors running at once *)

\* the answers explored while two logins overlap
RaceReplies == {[kind |-> "dashboard", cookies |-> "sid-a"], [kind |-> "rejected", cookies |-> ""]}

LoginDone(script, pfsense_name, before, r) ==
    [called |-> TRUE, script |-> script, pfsense_name |-> pfsense_name, now |-> clock,
     before |-> before, outcome |-> r.outcome, session |-> r.session]

\* lines 98-105 of a login_pfsense call: the cache is loaded; the call ends
\* here when json.load raises or a stored credential is reused, else it goes
\* on to the requests of lines 111 and 133
BeginLogin(script, pfsense_name) ==
    /\ ~in_flight[script].busy
    /\ LET found == lookup_credential(auth_file, pfsense_name, clock)
       IN IF found = "fresh"
            THEN /\ in_flight' = [in_flight EXCEPT ![script] =
                                     [busy |-> TRUE, pfsense_name |-> pfsense_name,
                                      auth_data |-> load_auth_data(auth_file).data,
                                      before |-> auth_file]]
                 /\ UNCHANGED <<auth_file, last_login>>
            ELSE /\ last_login' = LoginDone(script, pfsense_name, auth_file,
                                            login_pfsense(auth_file, pfsense_name, clock,
                                                          [kind |-> "rejected", cookies |-> ""]))
                 /\ UNCHANGED <<auth_file, in_flight>>
    /\ UNCHANGED <<history_file, clock, last_update, schedule>>
    /\ UNCHANGED calcVars /\ UNCHANGED htmlVars /\ UNCHANGED loopVars /\ UNCHANGED loadVars /\ UNCHANGED storeVars

\* lines 107-144 of that call: the target answers, and on 'Dashboard' the
\* cache loaded at line 98 is written back with the new entry
FinishLogin(script) ==
    /\ in_flight[script].busy
    /\ \E reply \in RaceReplies :
         \E r \in {authenticate(in_flight[script].auth_data, auth_file,
                                in_flight[script].pfsense_name, clock, reply)} :
            /\ auth_file' = r.file
            /\ last_login' = LoginDone(script, in_flight[script].pfsense_name,
                                       in_flight[script].before, r)
    /\ in_flight' = [in_flight EXCEPT ![script] = NotInFlight]
    /\ UNCHANGED <<history_file, clock, last_update, schedule>>
    /\ UNCHANGED calcVars /\ UNCHANGED htmlVars /\ UNCHANGED loopVars /\ UNCHANGED loadVars /\ UNCHANGED storeVars

BeginLoginStep ==
    \E script \in Scripts : \E pfsense_name \in Targets : BeginLogin(script, pfsense_name)

FinishLoginStep == \E script \in Scripts : FinishLogin(script)

NextAuthRace == BeginLoginStep \/ FinishLoginStep

SpecAuthRace == InitAuth /\ [][NextAuthRace]_vars

-----------------------------------------------------------------------------
(* The history file under interrupted saves and disk faults *)

\* the process is killed inside save_bandwidth_history, between the open(.., 'w')
\* that truncates the file and the end of json.dump: the file is left empty
\* or holding the beginning of a document
InterruptedSave ==
    /\ history_file' \in {EmptyFile, CorruptFile}
    /\ UNCHANGED <<clock, last_update, schedule>>
    /\ UNCHANGED calcVars /\ UNCHANGED htmlVars /\ UNCHANGED authVars
    /\ UNCHANGED loopVars /\ UNCHANGED loadVars /\ UNCHANGED storeVars

\* one load_bandwidth_history call (generate_html line 590 makes one)
LoadHistory ==
    \E io \in DiskEvents :
      \E r \in {load_history(history_file, clock, history_backup, io)} :
         /\ history_backup' = r.backup
         /\ last_load' = [called |-> TRUE, file |-> history_file, now |-> clock, io |-> io,
                          raised |-> r.raised, value |-> r.value,
                          backup_attempted |-> r.backup_attempted]
         /\ UNCHANGED histVars /\ UNCHANGED storeVars
         /\ UNCHANGED calcVars /\ UNCHANGED htmlVars /\ UNCHANGED authVars /\ UNCHANGED loopVars

NextLoad == FreePoll \/ InterruptedSave \/ LoadHistory

SpecLoad == Init /\ [][NextLoad]_vars

-----------------------------------------------------------------------------
(* pfbw.py: the poll loop *)

INTERFACE_REFRESH_INTERVAL == 300
\* line 683: config['Bandwidth'].get('poll_every', 10)
poll_bw_interval == 10
MaxCycles == 2

\* the [PfSense_*] sections of the configuration, in file order
BwTargets == <<"fw1", "fw2">>

\* what a target answers to get_interface_names: a widget with names, nothing
\* usable ({} returned), no connection at the token request of line 278
NamesReplies ==
    {[kind |-> "mappings", name_mappings |-> m] : m \in NameMappings}
        \cup {[kind |-> k, name_mappings |-> EmptyDict] : k \in {"none", "connection_error"}}

\* what a target answers to get_interface_bandwidth: counters, nothing usable
\* (None returned: no token, status other than 200, unparseable body, failed
\* post), no connection at the token request of line 371
MainSnapshots == [{"wan"} -> {G1, G2}]
BandwidthReplies ==
    {[kind |-> "data", raw_data |-> s] : s \in MainSnapshots}
        \cup {[kind |-> k, raw_data |-> None] : k \in {"no_data", "connection_error"}}

\* should_update_interface_names on the dict interface_names_last_updated
should_update_interface_names(last_updated, names, now) ==
    IF "any_pfsense" \notin DOMAIN last_updated \/ names = EmptyDict THEN TRUE
    ELSE now - last_updated["any_pfsense"] > INTERFACE_REFRESH_INTERVAL

\* an except block of main whose first statement is log_message(..., level=...):
\* "handled" when that call returns, "TypeError" when it raises
logging_handler == IF log_message(TRUE) = "TypeError" THEN "TypeError" ELSE "handled"

\* What becomes of an exception raised while a target is polled, by where it
\* was raised: in login_pfsense (try of line 709), in get_interface_names (try
\* of line 717) or in get_interface_bandwidth (try of line 731).
\*   "continue_poll": handled at 727, the iteration goes on to line 731
\*   "skipped": handled at 743 or 760, next section
\*   "failed": handled at 751 or 755, the name joins failed_firewalls
\*   "escaped": every handler on the way raised; the exception leaves main
poll_exception(origin) ==
    LET inner == IF origin \in {"names", "fetch"} THEN logging_handler ELSE "not_entered"
    IN  IF inner = "handled"
          THEN (IF origin = "names" THEN "continue_poll" ELSE "skipped")
        ELSE IF logging_handler = "handled" THEN "failed"     \* lines 752 / 756
        ELSE IF logging_handler = "handled" THEN "skipped"    \* line 761
        ELSE "escaped"

\* One iteration of the loop of lines 701-762 on the globals st.  event says
\* what happened to the target, route whether the loop goes on ("next") or the
\* exception left main ("escaped"), failed whether the name was appended to
\* failed_firewalls, report what was put into current_calculated_bandwidth.
bw_poll_target(st, pfsense_name, now, reply, names_reply, fetch, order) ==
    LET login == login_pfsense(st.auth_file, pfsense_name, now, reply)
        base == [login |-> login, interface_names |-> st.interface_names,
                 names_last_updated |-> st.names_last_updated,
                 interface_names_fetched |-> st.interface_names_fetched,
                 previous_data |-> st.previous_data, max_bandwidth |-> st.max_bandwidth,
                 event |-> "", route |-> "next", failed |-> FALSE, report |-> <<>>,
                 called |-> FALSE, results |-> EmptyDict, names_requested |-> FALSE]
        Ended(b, event, route) ==
            [b EXCEPT !.event = event, !.failed = (route = "failed"),
                      !.route = IF route = "escaped" THEN "escaped" ELSE "next"]
        wants_names == /\ ~st.interface_names_fetched
                       /\ should_update_interface_names(st.names_last_updated,
                                                        st.interface_names, now)
        names_route == IF wants_names /\ names_reply.kind = "connection_error"
                         THEN poll_exception("names") ELSE "continue_poll"
        after_names ==
            IF wants_names /\ names_reply.kind = "mappings"
              THEN [base EXCEPT
                      !.interface_names = DictUpdate(@, names_reply.name_mappings),
                      !.names_last_updated = DictSet(@, "any_pfsense", now),
                      !.interface_names_fetched = TRUE]
              ELSE base
        r == calculate_bandwidth(fetch.raw_data, order, pfsense_name, st.previous_data,
                                 after_names.interface_names, st.manual_max_bandwidth,
                                 st.min_dynamic_maxbw, st.max_bandwidth, st.observed)
    IN  IF login.outcome \in {"load_error", "connection_error"}
          THEN Ended(base, login.outcome, poll_exception("login"))
        ELSE IF login.session = None
          THEN [base EXCEPT !.event = "auth_failed", !.failed = TRUE]
        ELSE IF names_route # "continue_poll"
          THEN [Ended(base, "connection_error", names_route) EXCEPT !.names_requested = TRUE]
        ELSE IF fetch.kind = "connection_error"
          THEN [Ended(after_names, "connection_error", poll_exception("fetch"))
                  EXCEPT !.names_requested = wants_names]
        ELSE IF fetch.kind = "no_data"
          THEN [after_names EXCEPT !.event = "no_data", !.names_requested = wants_names]
        ELSE [after_names EXCEPT
                !.event = "reported",
                !.names_requested = wants_names,
                !.previous_data = r.previous_data,
                !.max_bandwidth = r.max_bandwidth,
                !.called = TRUE,
                !.results = r.results,
                !.report = <<[name |-> pfsense_name,
                              order |-> IF r.results = EmptyDict THEN <<>> ELSE order,
                              results |-> r.results]>>]

\* [Bandwidth] sections a run can be started with: the two interfaces polled
\* every 10 s, and an empty 'interfaces =' line ("".split(',') is ['']) with
\* polls every 10 s or every 400 s
MainConfigs ==
    {[interfaces |-> ConfigInterfaces, poll_every |-> poll_bw_interval],
     [interfaces |-> <<"">>, poll_every |-> poll_bw_interval],
     [interfaces |-> <<"">>, poll_every |-> 400]}

\* the raw counters a data store left by an earlier run holds
StoredRaw == [t \in Targets |-> [i \in {"wan"} |-> G1]]

\* python pfbw.py [-d]: lines 791-796 and 680-690.  load_stored_data finds no
\* data store or the one of an earlier run; the stored names come with the
\* time they were fetched at, or without one
BwStart ==
    /\ bw_main.pc = "not_started"
    /\ \E daemon_mode \in BOOLEAN : \E cfg \in MainConfigs :
       \E raw \in {EmptyDict, StoredRaw} :
         \E stored_at \in (IF interface_names = EmptyDict
                             THEN {EmptyDict}
                             ELSE {EmptyDict, "any_pfsense" :> 0}) :
          \E found \in {IF raw = EmptyDict /\ interface_names = EmptyDict
                           THEN MissingFile
                           ELSE save_stored_data(raw, interface_names, stored_at,
                                                 real_interfaces, max_bandwidth, clock)} :
           /\ data_store' = found
           /\ previous_data' = load_stored_data(found).previous_data
           /\ last_store' = [last_store EXCEPT !.loaded = load_stored_data(found)]
           /\ bw_main' = [bw_main EXCEPT !.pc = "poll", !.daemon_mode = daemon_mode,
                                         !.cycle = 1, !.idx = 1,
                                         !.interfaces = cfg.interfaces,
                                         !.poll_every = cfg.poll_every,
                                         !.names_last_updated = stored_at]
    /\ interface_names_fetched' = FALSE
    /\ UNCHANGED <<max_bandwidth, interface_names, manual_max_bandwidth,
                   min_dynamic_maxbw, last_call, observed, real_interfaces>>
    /\ UNCHANGED <<gw_main, history_backup, last_load>>
    /\ UNCHANGED histVars /\ UNCHANGED htmlVars /\ UNCHANGED authVars

\* lines 701-762 for the next section; an exception that leaves main is logged
\* by line 800 and the process ends
BwPollTarget ==
    /\ bw_main.pc = "poll"
    /\ bw_main.idx <= Len(BwTargets)
    /\ \E reply \in ServerReplies : \E names_reply \in NamesReplies :
       \E fetch \in BandwidthReplies :
         LET pfsense_name == BwTargets[bw_main.idx]
             st == [auth_file |-> auth_file, interface_names |-> interface_names,
                    names_last_updated |-> bw_main.names_last_updated,
                    interface_names_fetched |-> interface_names_fetched,
                    previous_data |-> previous_data, max_bandwidth |-> max_bandwidth,
                    manual_max_bandwidth |-> manual_max_bandwidth,
                    min_dynamic_maxbw |-> min_dynamic_maxbw, observed |-> observed]
         IN \E r \in {bw_poll_target(st, pfsense_name, clock, reply, names_reply, fetch,
                                     <<"wan">>)} :
            /\ auth_file' = r.login.file
            /\ last_login' = [called |-> TRUE, script |-> "pfbw",
                              pfsense_name |-> pfsense_name, now |-> clock,
                              before |-> auth_file, outcome |-> r.login.outcome,
                              session |-> r.login.session]
            /\ interface_names' = r.interface_names
            /\ interface_names_fetched' = r.interface_names_fetched
            /\ previous_data' = r.previous_data
            /\ max_bandwidth' = r.max_bandwidth
            /\ last_call' = IF r.called
                              THEN [called |-> TRUE, pfsense_name |-> pfsense_name,
                                    current_data |-> fetch.raw_data,
                                    had_previous |-> pfsense_name \in DOMAIN previous_data,
                                    prev_data |-> DictGet(previous_data, pfsense_name, EmptyDict),
                                    results |-> r.results]
                              ELSE last_call
            /\ bw_main' = [bw_main EXCEPT
                             !.pc = IF r.route = "escaped" THEN "crashed" ELSE @,
                             !.raised = IF r.route = "escaped" THEN "TypeError" ELSE @,
                             !.idx = IF r.route = "escaped" THEN @ ELSE @ + 1,
                             !.names_last_updated = r.names_last_updated,
                             !.polled = Append(@, pfsense_name),
                             !.events = Append(@, r.event),
                             !.names_requested = Append(@, r.names_requested),
                             !.failed_firewalls =
                                 IF r.failed THEN Append(@, pfsense_name) ELSE @,
                             !.current_calculated_bandwidth = @ \o r.report]
            \* lines 721-725 when the names were fetched in this poll
            /\ IF r.interface_names_fetched /\ ~interface_names_fetched
                 THEN /\ real_interfaces' = DictUpdate(real_interfaces, RealIfMappings)
                      /\ SaveAs(r.interface_names, r.names_last_updated, real_interfaces')
                 ELSE UNCHANGED storeVars
    /\ UNCHANGED <<manual_max_bandwidth, min_dynamic_maxbw, observed>>
    /\ UNCHANGED <<gw_main, in_flight, history_backup, last_load>>
    /\ UNCHANGED histVars /\ UNCHANGED htmlVars

\* lines 773-788 with the sleep moved in front of the render step
cycle_steps_sleep_first(updates, render_raised, render_escaped, daemon_mode) ==
    (IF updates THEN <<"history">> ELSE <<>>)
        \o <<"save">>
        \o (IF daemon_mode THEN <<"sleep">> ELSE <<>>)
        \o (IF render_raised THEN <<"render_failed">> ELSE <<"render">>)
        \o (IF render_escaped \/ daemon_mode THEN <<>> ELSE <<"exit">>)

\* lines 773-788 in statement order: update_bandwidth_history when a target
\* reported, save_stored_data, generate_html, then break or time.sleep unless
\* the handler of line 782 raised
cycle_steps(updates, render_raised, render_escaped, daemon_mode) ==
    (IF updates THEN <<"history">> ELSE <<>>)
        \o <<"save">>
        \o (IF render_raised THEN <<"render_failed">> ELSE <<"render">>)
        \o (IF render_escaped THEN <<>>
            ELSE IF daemon_mode THEN <<"sleep">> ELSE <<"exit">>)

\* lines 764-788: the summary of failed targets, the history update, the save
\* of the data store, the render step, then the end of a single run or the
\* sleep of a daemon.  steps lists what the cycle got done.
BwFinishCycle ==
    /\ bw_main.pc = "poll"
    /\ bw_main.idx > Len(BwTargets)
    /\ bw_main.daemon_mode => bw_main.cycle < MaxCycles
    /\ LET all_calculated_bw_this_cycle == bw_main.current_calculated_bandwidth
           summary_raised == /\ bw_main.failed_firewalls # <<>>
                             /\ log_message(TRUE) = "TypeError"         \* line 766
           updates == ~summary_raised /\ all_calculated_bw_this_cycle # <<>>
           history == IF updates
                        THEN update_bandwidth_history(all_calculated_bw_this_cycle,
                                                      history_file, clock)
                        ELSE history_file
           html == generate_html_for(bw_main.interfaces, history, clock, interface_names,
                                     manual_max_bandwidth, min_dynamic_maxbw, max_bandwidth)
           render_escaped == /\ ~summary_raised /\ html.raised
                             /\ logging_handler = "TypeError"           \* line 782
           escaped == summary_raised \/ render_escaped
           steps == IF summary_raised THEN <<>>
                    ELSE cycle_steps(updates, html.raised, render_escaped,
                                     bw_main.daemon_mode)
           ended == [cycle |-> bw_main.cycle, polled |-> bw_main.polled,
                     events |-> bw_main.events,
                     reported |-> [i \in DOMAIN all_calculated_bw_this_cycle |->
                                     all_calculated_bw_this_cycle[i].name],
                     steps |-> steps]
       IN /\ history_file' = history
          /\ last_update' = IF updates
                              THEN [called |-> TRUE,
                                    all_bandwidth |-> all_calculated_bw_this_cycle,
                                    now |-> clock,
                                    active |-> active_firewall(all_calculated_bw_this_cycle)]
                              ELSE last_update
          /\ history_backup' = IF summary_raised THEN history_backup
                               ELSE load_history(history_file, clock, history_backup, "ok").backup
          /\ last_render' = IF summary_raised THEN last_render
                            ELSE IF html.raised THEN "raised" ELSE "written"
          /\ html_page' = IF summary_raised \/ html.raised THEN html_page ELSE html.page
          /\ clock' = IF ~escaped /\ bw_main.daemon_mode THEN clock + bw_main.poll_every ELSE clock
          /\ bw_main' =
               IF escaped
                 THEN [bw_main EXCEPT !.pc = "crashed", !.raised = "TypeError", !.done = ended]
               ELSE IF ~bw_main.daemon_mode
                 THEN [bw_main EXCEPT !.pc = "exited", !.done = ended]
               ELSE [bw_main EXCEPT !.cycle = @ + 1, !.idx = 1, !.polled = <<>>,
                                    !.events = <<>>, !.names_requested = <<>>,
                                    !.failed_firewalls = <<>>,
                                    !.current_calculated_bandwidth = <<>>, !.done = ended]
          \* line 776
          /\ IF summary_raised
               THEN UNCHANGED <<data_store, last_store>>
               ELSE SaveAs(interface_names, bw_main.names_last_updated, real_interfaces)
    /\ UNCHANGED <<schedule, gw_main, last_load, real_interfaces>>
    /\ UNCHANGED calcVars /\ UNCHANGED authVars

NextMain == BwStart \/ BwPollTarget \/ BwFinishCycle

SpecMain == InitAuth /\ [][NextMain]_vars

-----------------------------------------------------------------------------
(* pfgw.py: the poll loop *)

GwPollEvery == 30
MaxGwCycles == 2

\* the [PfSense_*] sections of the configuration, in file order
GwTargets == <<"fw1", "fw2">>

\* what a target answers to get_gateway_status: a widget with gateway rows, a
\* widget without rows, no CSRF token or a non-200 answer, no connection
GatewayReplies == {"gateways", "no_gateways", "no_content", "connection_error"}

\* get_gateway_status and parse_gateway_status (lines 233-312): requests
\* raises inside get_csrf_token or session.post; None without token or on a
\* status other than 200
get_gateway_status(status) ==
    [raised |-> status = "connection_error",
     html_content |-> status \in {"gateways", "no_gateways"},
     gateways |-> status = "gateways"]

\* One iteration of the loop of lines 351-374.  Nothing in it catches an
\* exception: one raised by login_pfsense or by get_gateway_status leaves main.
\* escaped names the exception that left main, "" when none did.
gw_poll_target(file, pfsense_name, now, reply, status) ==
    LET login == gw_login_pfsense(file, pfsense_name, now, reply)
        fetched == get_gateway_status(status)
    IN  IF login.outcome = "load_error"
          THEN [login |-> login, escaped |-> "JSONDecodeError", gateways |-> FALSE,
                event |-> "load_error"]
        ELSE IF login.outcome = "connection_error"
          THEN [login |-> login, escaped |-> "ConnectionError", gateways |-> FALSE,
                event |-> "connection_error"]
        ELSE IF login.session = None
          THEN [login |-> login, escaped |-> "", gateways |-> FALSE, event |-> "auth_failed"]
        ELSE IF fetched.raised
          THEN [login |-> login, escaped |-> "ConnectionError", gateways |-> FALSE,
                event |-> "connection_error"]
        ELSE [login |-> login, escaped |-> "",
              gateways |-> fetched.html_content /\ fetched.gateways,
              event |-> IF ~fetched.html_content THEN "no_content"
                        ELSE IF fetched.gateways THEN "gateways" ELSE "no_gateways"]

\* python pfgw.py [-d]: lines 390-396 and 339-349
GwStart ==
    /\ gw_main.pc = "not_started"
    /\ \E daemon_mode \in BOOLEAN :
         gw_main' = [gw_main EXCEPT !.pc = "poll", !.daemon_mode = daemon_mode,
                                    !.cycle = 1, !.idx = 1]
    /\ UNCHANGED <<bw_main, history_backup, last_load>> /\ UNCHANGED storeVars
    /\ UNCHANGED calcVars /\ UNCHANGED histVars /\ UNCHANGED htmlVars /\ UNCHANGED authVars

\* lines 351-374 for the next section; an exception that leaves main is logged
\* by line 399 and the process ends
GwPollTarget ==
    /\ gw_main.pc = "poll"
    /\ gw_main.idx <= Len(GwTargets)
    /\ \E reply \in ServerReplies : \E status \in GatewayReplies :
         LET pfsense_name == GwTargets[gw_main.idx]
         IN \E r \in {gw_poll_target(auth_file, pfsense_name, clock, reply, status)} :
            /\ auth_file' = r.login.file
            /\ last_login' = [called |-> TRUE, script |-> "pfgw",
                              pfsense_name |-> pfsense_name, now |-> clock,
                              before |-> auth_file, outcome |-> r.login.outcome,
                              session |-> r.login.session]
            /\ gw_main' =
                 IF r.escaped # ""
                   THEN [gw_main EXCEPT !.pc = "crashed", !.raised = r.escaped,
                                        !.polled = Append(@, pfsense_name),
                                        !.events = Append(@, r.event)]
                   ELSE [gw_main EXCEPT
                           !.idx = @ + 1,
                           !.polled = Append(@, pfsense_name),
                           !.events = Append(@, r.event),
                           !.all_gateways = IF r.gateways THEN Append(@, pfsense_name) ELSE @]
    /\ UNCHANGED <<bw_main, in_flight, history_backup, last_load>> /\ UNCHANGED storeVars
    /\ UNCHANGED calcVars /\ UNCHANGED histVars /\ UNCHANGED htmlVars

\* lines 376-388: the page is rendered when a target reported gateways; a
\* single run ends, a daemon sleeps and starts over
GwFinishCycle ==
    /\ gw_main.pc = "poll"
    /\ gw_main.idx > Len(GwTargets)
    /\ gw_main.daemon_mode => gw_main.cycle < MaxGwCycles
    /\ LET rendered == [gw_main EXCEPT
                          !.page = IF gw_main.all_gateways # <<>>
                                     THEN gw_main.all_gateways ELSE @]
       IN gw_main' = IF ~gw_main.daemon_mode
                       THEN [rendered EXCEPT !.pc = "exited"]
                       ELSE [rendered EXCEPT !.cycle = @ + 1, !.idx = 1, !.slept = @ + 1,
                                             !.polled = <<>>, !.events = <<>>,
                                             !.all_gateways = <<>>]
    /\ clock' = IF gw_main.daemon_mode THEN clock + GwPollEvery ELSE clock
    /\ UNCHANGED <<bw_main, history_file, last_update, schedule, history_backup, last_load>> /\ UNCHANGED storeVars
    /\ UNCHANGED calcVars /\ UNCHANGED htmlVars /\ UNCHANGED authVars

NextGw == GwStart \/ GwPollTarget \/ GwFinishCycle

SpecGw == InitAuth /\ [][NextGw]_vars

-----------------------------------------------------------------------------
(* The rate calculator when an interface appears between polls *)

\* fw1 reports wan alone or wan and lan, the counters of lan being anything
\* a running interface can show
AppearingSnapshots ==
    [{"wan"} -> {G1, G2, G3}]
        \cup {s \in [{"wan", "lan"} -> {G1, G2, G3, G4, G5}] : s["wan"] \in {G1, G2, G3}}

CalculateAppearing ==
    \E current_data \in AppearingSnapshots :
      \E order \in Orders(DOMAIN current_data) : Calc("fw1", current_data, order, FALSE)

NextAppearing == CalculateAppearing

SpecAppearing == Init /\ [][NextAppearing]_vars

-----------------------------------------------------------------------------
(* The ceiling table when the interfaces widget reports other names *)

\* a fourth sample, 100 Mbit after G3 in both directions
G6 == Good(4, Megabits(3100), Megabits(24100))

\* fw1 reports wan alone or wan and lan
RenameSnapshots ==
    [{"wan"} -> {G1, G3, G6}]
        \cup {s \in [{"wan", "lan"} -> {G1, G2, G3, G6}] : s["lan"] \in {G1, G2}}

\* the widget names wan UPLINK, or wan UPLINK and lan OFFICE
RenameMappings == {"wan" :> "UPLINK", ("wan" :> "UPLINK") @@ ("lan" :> "OFFICE")}

CalculateRenamed ==
    \E current_data \in RenameSnapshots :
      \E order \in Orders(DOMAIN current_data) : Calc("fw1", current_data, order, FALSE)

\* main lines 716-720 and 726 with these answers of the widget
RenameInterfaces ==
    /\ ~interface_names_fetched
    /\ \E name_mappings \in RenameMappings :
         interface_names' = DictUpdate(interface_names, name_mappings)
    /\ interface_names_fetched' = TRUE
    /\ UNCHANGED <<previous_data, max_bandwidth, manual_max_bandwidth, min_dynamic_maxbw,
                   last_call, observed>>
    /\ UNCHANGED histVars /\ UNCHANGED htmlVars
    /\ UNCHANGED authVars /\ UNCHANGED loopVars /\ UNCHANGED loadVars /\ UNCHANGED storeVars

NextRename == CalculateRenamed \/ RenameInterfaces

SpecRename == Init /\ [][NextRename]_vars

-----------------------------------------------------------------------------
(* pfgw.py: the colour of a gateway row *)

\* str as a sequence of characters
LowerCase == <<"a", "b", "c", "d", "e", "f", "g", "h", "i", "j", "k", "l", "m", "n", "o", "p", "q", "r", "s", "t", "u", "v", "w", "x", "y", "z">>
UpperCase == <<"A", "B", "C", "D", "E", "F", "G", "H", "I", "J", "K", "L", "M", "N", "O", "P", "Q", "R", "S", "T", "U", "V", "W", "X", "Y", "Z">>

\* str.lower() and str.upper(), character by character
lower_char(c) ==
    IF \E i \in DOMAIN UpperCase : UpperCase[i] = c
      THEN LowerCase[CHOOSE i \in DOMAIN UpperCase : UpperCase[i] = c]
      ELSE c
upper_char(c) ==
    IF \E i \in DOMAIN LowerCase : LowerCase[i] = c
      THEN UpperCase[CHOOSE i \in DOMAIN LowerCase : LowerCase[i] = c]
      ELSE c
lower(str) == [i \in DOMAIN str |-> lower_char(str[i])]
upper(str) == [i \in DOMAIN str |-> upper_char(str[i])]

\* sub in str
Contains(str, sub) ==
    \E i \in 1..(Len(str) - Len(sub) + 1) : SubSeq(str, i, i + Len(sub) - 1) = sub

OfflineWord == <<"o", "f", "f", "l", "i", "n", "e">>
PacketlossWord == <<"p", "a", "c", "k", "e", "t", "l", "o", "s", "s">>

\* get_status_color with the packet loss looked at before the word 'offline'
get_status_color_loss_first(status, loss) ==
    LET status_lower == lower(status)
    IN  IF Contains(status_lower, PacketlossWord) \/ loss # "0.0%"
          THEN [color_class |-> "table-warning", status_symbol |-> "warning", status_order |-> 1]
        ELSE IF Contains(status_lower, OfflineWord)
          THEN [color_class |-> "table-danger", status_symbol |-> "cross", status_order |-> 2]
        ELSE [color_class |-> "table-success", status_symbol |-> "check", status_order |-> 0]

\* get_status_color(status, loss): colour class, symbol and sort order
get_status_color(status, loss) ==
    LET status_lower == lower(status)
    IN  IF Contains(status_lower, OfflineWord)
          THEN [color_class |-> "table-danger", status_symbol |-> "cross", status_order |-> 2]
        ELSE IF Contains(status_lower, PacketlossWord) \/ loss # "0.0%"
          THEN [color_class |-> "table-warning", status_symbol |-> "warning", status_order |-> 1]
        ELSE [color_class |-> "table-success", status_symbol |-> "check", status_order |-> 0]

\* the status column of the gateways widget as pfSense words it, and the same
\* in capitals and in small letters
WidgetStatuses ==
    {<<"O", "n", "l", "i", "n", "e">>,
     <<"O", "f", "f", "l", "i", "n", "e">>,
     <<"O", "f", "f", "l", "i", "n", "e", " ", "(", "f", "o", "r", "c", "e", "d", ")">>,
     <<"W", "a", "r", "n", "i", "n", "g", ",", " ", "P", "a", "c", "k", "e", "t", "l", "o", "s", "s">>,
     <<"D", "a", "n", "g", "e", "r", ",", " ", "P", "a", "c", "k", "e", "t", "l", "o", "s", "s">>,
     <<"W", "a", "r", "n", "i", "n", "g", ",", " ", "L", "a", "t", "e", "n", "c", "y">>,
     <<"P", "e", "n", "d", "i", "n", "g">>,
     <<"O", "f", "f", " ", "l", "i", "n", "e">>,
     <<"o", "F", "F", "L", "i", "n", "e">>,
     <<>>}
StatusTexts == WidgetStatuses \cup {upper(s) : s \in WidgetStatuses}
                   \cup {lower(s) : s \in WidgetStatuses}

\* the loss column
LossTexts == {"0.0%", "0%", "0.00%", "0.0% ", "5.0%", "100%", ""}

\* parse_gateway_status lines 296-300 for one row of the widget
ParseGatewayRow ==
    /\ \E status \in StatusTexts : \E loss \in LossTexts :
         gw_main' = [gw_main EXCEPT !.gateway = [parsed |-> TRUE, status |-> status,
                                                 loss |-> loss,
                                                 color |-> get_status_color(status, loss)]]
    /\ UNCHANGED <<bw_main, history_backup, last_load>> /\ UNCHANGED storeVars
    /\ UNCHANGED calcVars /\ UNCHANGED histVars /\ UNCHANGED htmlVars /\ UNCHANGED authVars

NextGateway == ParseGatewayRow

SpecGateway == Init /\ [][NextGateway]_vars

-----------------------------------------------------------------------------
(* The history store when targets report equal or no traffic *)

WanFailed == ResultEntry("WAN", Rate(Megabits(2), 1), ZeroRate, "error")
WanSilent == ResultEntry("WAN", ZeroRate, ZeroRate, "ok")
WanMirror == ResultEntry("WAN", Rate(Megabits(1), 1), Rate(Megabits(2), 1), "ok")
WanPeer == ResultEntry("WAN", Rate(Megabits(300), 1), Rate(Megabits(1500), 1), "ok")

Reporting(name, entry) == [name |-> name, order |-> <<"wan">>, results |-> ("wan" :> entry)]

\* cycles in which no target has traffic, in which targets tie, and in which
\* one target is ahead
SelectionCycles ==
    {<<Reporting("fw1", WanFailed), Reporting("fw2", WanSilent)>>,
     <<Reporting("fw1", WanSilent), Reporting("fw2", WanFailed)>>,
     <<Reporting("fw1", WanIdle), Reporting("fw2", WanMirror)>>,
     <<Reporting("fw1", WanMirror), Reporting("fw2", WanIdle)>>,
     <<Reporting("fw1", WanIdle), Reporting("fw2", WanBusy), Reporting("fw3", WanPeer)>>,
     <<Reporting("fw1", WanBusy), Reporting("fw2", WanIdle), Reporting("fw3", WanPeer)>>,
     <<Reporting("fw1", WanSilent), Reporting("fw2", WanIdle)>>,
     <<Reporting("fw1", WanFailed)>>}

SelectionPoll ==
    /\ schedule.free < MaxFreePolls
    /\ \E dt \in FreeSteps : \E all_bandwidth \in SelectionCycles : UpdateHistory(all_bandwidth, dt)
    /\ schedule' = [schedule EXCEPT !.free = @ + 1]

NextSelection == SelectionPoll

SpecSelection == Init /\ [][NextSelection]_vars

-----------------------------------------------------------------------------
(* The data store across a restart of pfbw.py *)

MaxRestarts == 1

RestartSnapshots ==
    [fw1 |-> [{"wan"} -> {G1, G3, NullOut}], fw2 |-> [{"wan"} -> {G2}]]

\* main line 737 during a cycle
CalculateStored ==
    \E t \in Targets : \E current_data \in RestartSnapshots[t] :
      \E order \in Orders(DOMAIN current_data) : Calc(t, current_data, order, FALSE)

\* main lines 716-726 in full: the names and the device names are merged in,
\* stamped and saved
StoreInterfaceNames ==
    /\ ~interface_names_fetched
    /\ \E name_mappings \in NameMappings :
         /\ interface_names' = DictUpdate(interface_names, name_mappings)
         /\ real_interfaces' = DictUpdate(real_interfaces, RealIfMappings)
         /\ bw_main' = [bw_main EXCEPT !.names_last_updated = DictSet(@, "any_pfsense", clock)]
         /\ SaveAs(interface_names', bw_main'.names_last_updated, real_interfaces')
    /\ interface_names_fetched' = TRUE
    /\ UNCHANGED <<previous_data, max_bandwidth, manual_max_bandwidth, min_dynamic_maxbw,
                   last_call, observed, gw_main>>
    /\ UNCHANGED histVars /\ UNCHANGED htmlVars /\ UNCHANGED authVars /\ UNCHANGED loadVars

\* main line 776
SaveStoredData ==
    /\ SaveAs(interface_names, bw_main.names_last_updated, real_interfaces)
    /\ UNCHANGED real_interfaces
    /\ UNCHANGED calcVars /\ UNCHANGED histVars /\ UNCHANGED htmlVars
    /\ UNCHANGED authVars /\ UNCHANGED loopVars /\ UNCHANGED loadVars

\* the process ends and is started again: main line 680 assigns what
\* load_stored_data returns, line 690 clears the flag
Restart ==
    \E loaded \in {load_stored_data(data_store)} :
       /\ last_store.restarts < MaxRestarts
       /\ previous_data' = loaded.previous_data
       /\ interface_names' = loaded.interface_names
       /\ real_interfaces' = loaded.real_interfaces
       /\ max_bandwidth' = loaded.max_bandwidth
       /\ bw_main' = [bw_main EXCEPT !.names_last_updated = loaded.interface_names_last_updated]
       /\ interface_names_fetched' = FALSE
       /\ last_call' = NoCall
       /\ last_store' = [last_store EXCEPT !.restarts = @ + 1,
                                           !.restarted = TRUE, !.had_file = last_store.saved,
                                           !.at_restart = last_store.memory,
                                           !.loaded = loaded]
       /\ UNCHANGED <<data_store, manual_max_bandwidth, min_dynamic_maxbw, observed, gw_main>>
       /\ UNCHANGED histVars /\ UNCHANGED htmlVars /\ UNCHANGED authVars /\ UNCHANGED loadVars

NextRestart == CalculateStored \/ StoreInterfaceNames \/ SaveStoredData \/ Restart

SpecRestart == Init /\ [][NextRestart]_vars

-----------------------------------------------------------------------------
(* Properties of the rate calculator *)

WellFormed(interface_data) ==
    /\ Len(interface_data) >= 2
    /\ HasValuePair(interface_data[1]) /\ HasValuePair(interface_data[2])
    /\ interface_data[1].values[2] # None /\ interface_data[2].values[2] # None

\* the interfaces of the latest call that both snapshots hold with well-formed samples
Comparable ==
    {i \in (DOMAIN last_call.current_data) \cap (DOMAIN last_call.prev_data) :
        WellFormed(last_call.current_data[i]) /\ WellFormed(last_call.prev_data[i])}

TimeDelta(i) ==
    last_call.current_data[i][1].values[1] - last_call.prev_data[i][1].values[1]

CurrentCounter(i, d) == last_call.current_data[i][d].values[2]
PreviousCounter(i, d) == last_call.prev_data[i][d].values[2]

NonWrapping(i, d) == ~NumLess(CurrentCounter(i, d), PreviousCounter(i, d))

\* (current - previous) * 8 / (time_delta * 1,000,000)
PlainRate(i, d) == Rate(NumSub(CurrentCounter(i, d), PreviousCounter(i, d)), TimeDelta(i))

\* ((2^64 - previous) + current) * 8 / (time_delta * 1,000,000)
RolloverRate(i, d) ==
    Rate(NumAdd(NumSub(Num(1, 0, 0), PreviousCounter(i, d)), CurrentCounter(i, d)), TimeDelta(i))

ExpectedRate(i, d) == IF NonWrapping(i, d) THEN PlainRate(i, d) ELSE RolloverRate(i, d)

\* C1: every interface present with well-formed samples in both snapshots, with
\* time_delta > 0 and current >= previous in both directions, gets status 'ok'
\* with in and out equal to (current - previous) * 8 / (time_delta * 1,000,000).
C1_NonWrappingRate ==
    \A i \in Comparable :
        (TimeDelta(i) > 0 /\ NonWrapping(i, 1) /\ NonWrapping(i, 2))
            => /\ last_call.results[i].status = "ok"
               /\ RateEq(last_call.results[i].in, PlainRate(i, 1))
               /\ RateEq(last_call.results[i].out, PlainRate(i, 2))

\* C2: when a direction's current counter is below its previous counter and
\* time_delta > 0, the result has status 'ok' and that direction's rate comes
\* from byte_delta = (2^64 - previous) + current (2^64 - 100 -> 50 in one
\* second: 150 bytes, 150 * 8 / 1e6 Mbps).
C2_RolloverRate ==
    \A i \in Comparable :
        (TimeDelta(i) > 0 /\ (~NonWrapping(i, 1) \/ ~NonWrapping(i, 2)))
            => /\ last_call.results[i].status = "ok"
               /\ RateEq(last_call.results[i].in, ExpectedRate(i, 1))
               /\ RateEq(last_call.results[i].out, ExpectedRate(i, 2))

\* C3: an interface present with well-formed samples in both snapshots whose
\* time delta is <= 0 gets status 'invalid_time' with in = out = 0, and no
\* entry of any call carries a negative or an infinite rate.
C3_InvalidTime ==
    /\ \A i \in Comparable :
          TimeDelta(i) <= 0
            => /\ last_call.results[i].status = "invalid_time"
               /\ last_call.results[i].in = ZeroRate
               /\ last_call.results[i].out = ZeroRate
    /\ \A i \in DOMAIN last_call.results :
          /\ last_call.results[i].in.secs > 0 /\ last_call.results[i].out.secs > 0
          /\ ~NumLess(last_call.results[i].in.bytes, Zero)
          /\ ~NumLess(last_call.results[i].out.bytes, Zero)

\* a comparable interface whose timestamp went backwards was tagged 'invalid_time'
C3_Witness ==
    \E i \in Comparable :
        TimeDelta(i) < 0 /\ last_call.results[i].status = "invalid_time"

Healthy(i) == i \in Comparable /\ TimeDelta(i) > 0

\* an interface the previous snapshot holds well-formed and the current one
\* malformed (a sample or a value pair missing, a null counter), the time
\* delta being positive where the current sample still carries a timestamp
MalformedNow(i) ==
    /\ i \in (DOMAIN last_call.current_data) \cap (DOMAIN last_call.prev_data)
    /\ WellFormed(last_call.prev_data[i])
    /\ ~WellFormed(last_call.current_data[i])
    /\ (Len(last_call.current_data[i]) >= 1 /\ HasValuePair(last_call.current_data[i][1]))
          => TimeDelta(i) > 0

ErrorStatuses == {"incomplete_data", "invalid_format", "missing_values", "error"}

\* C4: in one call, a well-formed interface next to a malformed one gets status
\* 'ok' with its computed rate and the malformed one an error-classified
\* status, in either processing order.
C4_PartialFailureIsolation ==
    \A a, b \in DOMAIN last_call.results :
        (Healthy(a) /\ MalformedNow(b))
            => /\ last_call.results[a].status = "ok"
               /\ RateEq(last_call.results[a].in, ExpectedRate(a, 1))
               /\ RateEq(last_call.results[a].out, ExpectedRate(a, 2))
               /\ last_call.results[b].status \in ErrorStatuses

\* C5: after every calculate_bandwidth call with non-null current data the
\* stored previous snapshot of that target is the current snapshot, whatever
\* statuses the interfaces received.
C5_SnapshotReplaced ==
    last_call.called
        => /\ last_call.pfsense_name \in DOMAIN previous_data
           /\ previous_data[last_call.pfsense_name] = last_call.current_data

\* a call against a stored snapshot that changed it and tagged an interface 'error'
C5_Witness ==
    /\ last_call.called /\ last_call.had_previous
    /\ last_call.prev_data # last_call.current_data
    /\ \E i \in DOMAIN last_call.results : last_call.results[i].status = "error"

-----------------------------------------------------------------------------
(* Properties of the ceiling table and of the rendered page *)

CeilingOf(table, key) == DictGet(table, key, Mbps(min_dynamic_maxbw))

\* C6: on an interface direction without a manual override the dynamic ceiling
\* equals max(floor, r1, ..., rn) over the rates observed so far, and after
\* every step it is at least the floor and not lower than before.
C6_CeilingIsMaxObserved ==
    [][/\ \A key \in DOMAIN observed' :
             RateEq(CeilingOf(max_bandwidth', key), observed'[key])
       /\ \A key \in DOMAIN max_bandwidth :
             /\ key \in DOMAIN max_bandwidth'
             /\ RateLeq(max_bandwidth[key], max_bandwidth'[key])
             /\ RateLeq(Mbps(min_dynamic_maxbw), max_bandwidth'[key])]_vars

ManualKey(id, dir) == CeilingKey(get_display_name(interface_names, id), dir)

\* C7: for an interface id with a manual ceiling X the ceiling the rendered
\* page shows is X for the in and for the out direction, after any sequence of
\* polls, polls with rates above X included.
C7_ManualCeilingDisplayed ==
    last_render # "none"
        => /\ html_page.written
           /\ \A id \in DOMAIN manual_max_bandwidth : \A dir \in {"in", "out"} :
                 /\ ManualKey(id, dir) \in DOMAIN html_page.max_bandwidth
                 /\ html_page.max_bandwidth[ManualKey(id, dir)]
                        = Mbps(manual_max_bandwidth[id])

\* C8: a step never creates or changes the dynamic ceiling entries of an
\* interface id that has a manual override, whatever rates are observed.
C8_ManualCeilingFrame ==
    [][\A id \in DOMAIN manual_max_bandwidth : \A dir \in {"in", "out"} :
          /\ ManualKey(id, dir) \in DOMAIN max_bandwidth'
                <=> ManualKey(id, dir) \in DOMAIN max_bandwidth
          /\ ManualKey(id, dir) \in DOMAIN max_bandwidth
                => max_bandwidth'[ManualKey(id, dir)] = max_bandwidth[ManualKey(id, dir)]]_vars

\* an interface with a manual ceiling was processed to 'ok' with a rate above it
C8_Witness ==
    /\ last_call.called
    /\ \E id \in (DOMAIN manual_max_bandwidth) \cap (DOMAIN last_call.results) :
          /\ last_call.results[id].status = "ok"
          /\ RateLess(Mbps(manual_max_bandwidth[id]), last_call.results[id].out)

-----------------------------------------------------------------------------
(* Properties of the history store *)

StoredSeries == IF history_file.kind = "json" THEN history_file.data.interfaces ELSE EmptyDict

\* the display names that received a point in the latest update
Appended ==
    IF ~last_update.called \/ last_update.active = 0 THEN {}
    ELSE LET fw == last_update.all_bandwidth[last_update.active]
         IN {fw.results[i].display_name :
                i \in {j \in DOMAIN fw.results : fw.results[j].status = "ok"}}

NewestFirst(series) ==
    \A i \in 1..(Len(series) - 1) : series[i][1] >= series[i + 1][1]

WithinCount(series) == Len(series) <= 100

WithinAge(series) == \A i \in DOMAIN series : series[i][1] >= last_update.now - 300

AtMost100(n) == IF n > 100 THEN 100 ELSE n

\* C9: after an update, the in and out series of every interface that received
\* a point are newest-first, hold at most 100 entries, all of them no older
\* than 300 s; appends made 1 s apart from an empty store leave min(n, 100)
\* entries, 100 after 150 of them.
C9_RetentionOfUpdatedSeries ==
    \A dn \in Appended :
        /\ dn \in DOMAIN StoredSeries
        /\ \A series \in {StoredSeries[dn].in, StoredSeries[dn].out} :
              /\ NewestFirst(series)
              /\ WithinCount(series)
              /\ WithinAge(series)
              /\ series[1][1] = last_update.now
              /\ schedule.free = 0 => Len(series) = AtMost100(schedule.steady)

\* 150 appends made 1 s apart
C9_Witness ==
    /\ schedule.free = 0 /\ schedule.steady = 150
    /\ "WAN" \in Appended
    /\ Len(StoredSeries["WAN"].in) = 100
    /\ StoredSeries["WAN"].in[100][1] = last_update.now - 99

\* C10: after an update every series of the persisted store, the series of
\* interfaces that received no point in it included, holds at most 100 entries
\* per direction, all of them no older than 300 s.
C10_RetentionOfEverySeries ==
    last_update.called
        => \A dn \in DOMAIN StoredSeries :
              \A series \in {StoredSeries[dn].in, StoredSeries[dn].out} :
                  WithinCount(series) /\ WithinAge(series)

\* the points the latest update put at the head of a series: display name,
\* in value, out value (an update stamps its points with its own time, and the
\* clock moves between updates)
AppendedPoints ==
    {<<dn, StoredSeries[dn].in[1][2], StoredSeries[dn].out[1][2]>> :
        dn \in {d \in DOMAIN StoredSeries :
                   /\ StoredSeries[d].in # <<>> /\ StoredSeries[d].out # <<>>
                   /\ StoredSeries[d].in[1][1] = last_update.now
                   /\ StoredSeries[d].out[1][1] = last_update.now}}

\* the points one target has to offer: its 'ok' interfaces, rounded
PointsOf(fw) ==
    {<<fw.results[i].display_name, Round2(fw.results[i].in), Round2(fw.results[i].out)>> :
        i \in {j \in DOMAIN fw.results : fw.results[j].status = "ok"}}

Aggregate(fw) == total_bw(fw.order, fw.results)

\* C11: when targets report in a cycle, the points appended are exactly those
\* of a target whose sum of in + out over its 'ok' interfaces is the highest;
\* no point of any other target is appended.
C11_OnlyHighestAggregate ==
    (last_update.called /\ last_update.all_bandwidth # <<>>)
        => \E a \in DOMAIN last_update.all_bandwidth :
              /\ \A i \in DOMAIN last_update.all_bandwidth :
                    RateLeq(Aggregate(last_update.all_bandwidth[i]),
                            Aggregate(last_update.all_bandwidth[a]))
              /\ AppendedPoints = PointsOf(last_update.all_bandwidth[a])

\* two targets reported, the second had the higher aggregate, and an 'ok'
\* interface of the first got no point
C11_Witness ==
    /\ last_update.called /\ Len(last_update.all_bandwidth) = 2
    /\ last_update.active = 2
    /\ RateLess(Aggregate(last_update.all_bandwidth[1]), Aggregate(last_update.all_bandwidth[2]))
    /\ \E p \in PointsOf(last_update.all_bandwidth[1]) : p \notin AppendedPoints

-----------------------------------------------------------------------------
(* Properties of the credential store *)

EntriesOf(file) == IF file.kind = "json" THEN file.data ELSE EmptyDict

\* the file holds an entry for the target that has not expired at time now
Unexpired(file, pfsense_name, now) ==
    /\ pfsense_name \in DOMAIN EntriesOf(file)
    /\ "expiry" \in DOMAIN EntriesOf(file)[pfsense_name]
    /\ now < fromisoformat(EntriesOf(file)[pfsense_name].expiry)

FreshOutcomes == {"connection_error", "no_csrf", "login_failed", "logged_in"}

\* C12: login_pfsense reuses the stored credential exactly when the target has
\* an entry with now < expiry, and then hands back the stored bundle; otherwise
\* a fresh authentication is attempted; a credential just stored with a ttl of
\* one hour is reusable at once and no longer from its expiry on.
C12_ReuseIffUnexpired ==
    (last_login.called /\ last_login.outcome # "load_error")
        => /\ last_login.outcome = "reused"
                <=> Unexpired(last_login.before, last_login.pfsense_name, last_login.now)
           /\ last_login.outcome = "reused"
                => last_login.session
                      = Session(EntriesOf(last_login.before)[last_login.pfsense_name].cookies)
           /\ last_login.outcome # "reused" => last_login.outcome \in FreshOutcomes
           /\ last_login.outcome = "logged_in"
                => \A now \in {last_login.now, last_login.now + 1800, last_login.now + 3600} :
                      Unexpired(auth_file, last_login.pfsense_name, now)
                          <=> now < last_login.now + 3600

\* a credential stored by an earlier login is reused half an hour later
C12_Witness ==
    /\ last_login.called /\ last_login.outcome = "reused"
    /\ last_login.now = fromisoformat(EntriesOf(last_login.before)[last_login.pfsense_name].expiry)
                            - 1800
    /\ EntriesOf(last_login.before)[last_login.pfsense_name].cookies \in Cookies

\* C13: after a successful authentication for target T the persisted store
\* holds for T exactly the new session's cookie bundle with expiry = login
\* time + ttl, nothing of a prior entry of T, and every other entry of the
\* cache as it was.
C13_StoreReplaces ==
    (last_login.called /\ last_login.outcome = "logged_in")
        => /\ auth_file.kind = "json"
           /\ DOMAIN auth_file.data
                 = DOMAIN EntriesOf(last_login.before) \cup {last_login.pfsense_name}
           /\ DOMAIN auth_file.data[last_login.pfsense_name] = {"cookies", "expiry"}
           /\ Session(auth_file.data[last_login.pfsense_name].cookies) = last_login.session
           /\ fromisoformat(auth_file.data[last_login.pfsense_name].expiry)
                 = last_login.now + 1 * 3600
           /\ \A other \in DOMAIN EntriesOf(last_login.before) :
                 other # last_login.pfsense_name
                     => auth_file.data[other] = EntriesOf(last_login.before)[other]

\* a successful authentication for a target whose prior entry had another
\* bundle and a further field, with another target's entry in the cache
C13_Witness ==
    /\ last_login.called /\ last_login.outcome = "logged_in"
    /\ last_login.pfsense_name \in DOMAIN EntriesOf(last_login.before)
    /\ "sessid" \in DOMAIN EntriesOf(last_login.before)[last_login.pfsense_name]
    /\ \E other \in DOMAIN EntriesOf(last_login.before) : other # last_login.pfsense_name

\* C15: no step removes a target's entry from the persisted store, and an
\* entry changes only by a successful login for its own target: an expired
\* entry stays, a successful login for another target leaves it as it is.
C15_NeverDeleted ==
    [][\A t \in DOMAIN EntriesOf(auth_file) :
          /\ t \in DOMAIN EntriesOf(auth_file')
          /\ ~(last_login'.pfsense_name = t /\ last_login'.outcome = "logged_in")
                => EntriesOf(auth_file')[t] = EntriesOf(auth_file)[t]]_vars

-----------------------------------------------------------------------------
(* Properties of loading the history file *)

FreshHistory(now) == [timestamp |-> now, interval |-> 10, interfaces |-> EmptyDict]

\* C16: load_bandwidth_history never raises to its caller; for a missing, an
\* empty or an unparseable history file it returns a fresh empty structure
\* (timestamp = now, the configured interval, no interfaces); an unparseable
\* file that was read gets a backup copy attempted, and a failing copy
\* changes neither of the two.
C16_LoadNeverRaises ==
    last_load.called
        => /\ ~last_load.raised
           /\ last_load.file.kind \in {"missing", "empty", "corrupt"}
                 => last_load.value = FreshHistory(last_load.now)
           /\ (last_load.file.kind = "corrupt" /\ last_load.io # "read_error")
                 => /\ last_load.backup_attempted
                    /\ last_load.io = "ok" => history_backup = last_load.file

\* an unparseable file whose backup copy failed
C16_Witness ==
    /\ last_load.called
    /\ last_load.file.kind = "corrupt" /\ last_load.io = "copy_error"
    /\ last_load.backup_attempted /\ history_backup = MissingFile
    /\ last_load.value = FreshHistory(last_load.now) /\ last_load.now > 0

-----------------------------------------------------------------------------
(* Properties of the poll loops *)

\* C14: a login that finds an auth file that does not parse raises no error:
\* the file counts as an empty cache, the login goes on to a fresh
\* authentication, and the poll loop of the gateway monitor is not ended.
C14_MalformedStoreTolerated ==
    (last_login.called /\ last_login.script = "pfgw" /\ last_login.before.kind = "corrupt")
        => /\ last_login.outcome \in FreshOutcomes
           /\ gw_main.pc # "crashed"

Has(seq, x) == \E i \in DOMAIN seq : seq[i] = x

\* C17: in the bandwidth monitor, a target whose login returned no session is
\* skipped for the cycle, the other targets are still polled, the cycle goes
\* through its history update (when a target reported), its data-store save
\* and its render step, and a daemon then sleeps to retry in the next cycle.
C17_AuthFailureSkipsTarget ==
    LET done == bw_main.done
    IN \A i \in DOMAIN done.events :
         done.events[i] = "auth_failed"
           => /\ ~Has(done.reported, done.polled[i])
              /\ Len(done.polled) = Len(BwTargets)
              /\ done.reported # <<>> => Has(done.steps, "history")
              /\ Has(done.steps, "save")
              /\ Has(done.steps, "render") \/ Has(done.steps, "render_failed")
              /\ bw_main.daemon_mode => Has(done.steps, "sleep")

\* C18: in the bandwidth monitor, a connection error or timeout raised while a
\* target is polled is recovered: the target reports nothing in that cycle,
\* the loop moves on to the next section, and a daemon sleeps at the end of
\* the cycle to poll again.
C18_ConnectionErrorRecovered ==
    /\ \A i \in DOMAIN bw_main.events :
         bw_main.events[i] = "connection_error"
           => /\ bw_main.idx > i
              /\ \A j \in DOMAIN bw_main.current_calculated_bandwidth :
                    bw_main.current_calculated_bandwidth[j].name # bw_main.polled[i]
    /\ \A i \in DOMAIN bw_main.done.events :
         (bw_main.done.events[i] = "connection_error" /\ bw_main.daemon_mode)
           => Has(bw_main.done.steps, "sleep")

\* C19: every cycle of the bandwidth monitor in which at least one target
\* reported results ends with the status page written by the render step.
C19_PageWrittenEachCycle ==
    (bw_main.done.cycle > 0 /\ bw_main.done.reported # <<>>)
        => /\ Has(bw_main.done.steps, "render")
           /\ html_page # NotWritten

\* C20: in daemon mode a failed render step of the bandwidth monitor does not
\* end the poll loop: the process sleeps and starts the next cycle.
C20_RenderFailureSurvived ==
    (bw_main.daemon_mode /\ Has(bw_main.done.steps, "render_failed"))
        => /\ Has(bw_main.done.steps, "sleep")
           /\ bw_main.pc = "poll"
           /\ bw_main.cycle = bw_main.done.cycle + 1

-----------------------------------------------------------------------------
(* Further properties of the rate calculator *)

Implausible(rate) == RateLess(Mbps(MAX_REASONABLE_MBPS), rate)

\* C21: a rate above 20,000 Mbps is still returned, unclamped and with status
\* 'ok', whether it is the in or the out direction that exceeds the limit.
C21_ImplausibleRateReturned ==
    \A i \in Comparable :
        (/\ TimeDelta(i) > 0 /\ NonWrapping(i, 1) /\ NonWrapping(i, 2)
         /\ Implausible(PlainRate(i, 1)) \/ Implausible(PlainRate(i, 2)))
            => /\ last_call.results[i].status = "ok"
               /\ RateEq(last_call.results[i].in, PlainRate(i, 1))
               /\ RateEq(last_call.results[i].out, PlainRate(i, 2))

\* C22: the first calculate_bandwidth call for a target without a stored
\* snapshot stores the current snapshot as the baseline, returns an empty
\* result and changes no ceiling; every call for a target that has a stored
\* snapshot returns an entry per interface, and no target ever loses its
\* stored snapshot, so the baseline state is not entered again.
C22_BaselineOnce ==
    [][LET t == last_call'.pfsense_name
       IN /\ last_call'.called
          /\ t \notin DOMAIN previous_data
                => /\ last_call'.results = EmptyDict
                   /\ previous_data' = DictSet(previous_data, t, last_call'.current_data)
                   /\ max_bandwidth' = max_bandwidth
          /\ t \in DOMAIN previous_data
                => /\ last_call'.prev_data = previous_data[t]
                   /\ DOMAIN last_call'.results = DOMAIN last_call'.current_data
                   /\ last_call'.results # EmptyDict
          /\ DOMAIN previous_data \subseteq DOMAIN previous_data']_vars

\* the baseline call of one target after the other target has set ceilings
C22_Witness ==
    /\ last_call.called /\ ~last_call.had_previous
    /\ last_call.results = EmptyDict
    /\ previous_data[last_call.pfsense_name] = last_call.current_data
    /\ max_bandwidth # EmptyDict
    /\ Cardinality(DOMAIN previous_data) = 2

\* the interfaces the latest call found in the current snapshot only
NewInterfaces ==
    IF last_call.called /\ last_call.had_previous
      THEN (DOMAIN last_call.current_data) \ (DOMAIN last_call.prev_data)
      ELSE {}

\* C23: an interface the current snapshot holds and the stored one does not
\* gets in = out = 0 with status 'new_interface'; in the next call for the
\* target, when it is there again with well-formed samples and a positive time
\* delta, it gets its computed rate with status 'ok'.
C23_NewInterfaceNextPoll ==
    [][/\ \A i \in NewInterfaces' :
             /\ last_call'.results[i].status = "new_interface"
             /\ last_call'.results[i].in = ZeroRate
             /\ last_call'.results[i].out = ZeroRate
       /\ \A i \in NewInterfaces :
             (/\ last_call'.pfsense_name = last_call.pfsense_name
              /\ i \in Comparable' /\ TimeDelta(i)' > 0)
                => /\ last_call'.results[i].status = "ok"
                   /\ RateEq(last_call'.results[i].in, ExpectedRate(i, 1)')
                   /\ RateEq(last_call'.results[i].out, ExpectedRate(i, 2)')]_vars

Statuses == {"ok", "new_interface", "incomplete_data", "invalid_format", "invalid_time",
             "missing_values", "error"}

\* C24: a calculate_bandwidth call for a target that has a stored snapshot
\* returns one entry per interface of the current snapshot and no other, and
\* each entry carries a status out of ok, new_interface, incomplete_data,
\* invalid_format, invalid_time, missing_values and error; whatever is raised
\* while an interface is processed ends as status 'error' of that interface.
C24_OneStatusPerInterface ==
    (last_call.called /\ last_call.had_previous)
        => /\ DOMAIN last_call.results = DOMAIN last_call.current_data
           /\ \A i \in DOMAIN last_call.results : last_call.results[i].status \in Statuses

\* a call in which one interface raised and the other came with a single sample
C24_Witness ==
    /\ last_call.called /\ last_call.had_previous
    /\ DOMAIN last_call.results = {"wan", "lan"}
    /\ last_call.results["wan"].status = "error"
    /\ last_call.results["lan"].status = "incomplete_data"

-----------------------------------------------------------------------------
(* Further properties of the poll loops *)

IsPrefix(s, t) == Len(s) <= Len(t) /\ \A i \in DOMAIN s : s[i] = t[i]

\* where a step occurs in the steps of a cycle, 0 when it does not
StepAt(steps, names) ==
    IF \E i \in DOMAIN steps : steps[i] \in names
      THEN CHOOSE i \in DOMAIN steps : steps[i] \in names
      ELSE 0

Before(steps, early, late) ==
    StepAt(steps, late) # 0 => (StepAt(steps, early) # 0 /\ StepAt(steps, early) < StepAt(steps, late))

RenderSteps == {"render", "render_failed"}

-----------------------------------------------------------------------------
(* Properties of the ceiling table under renames *)

DirRate(entry, dir) == IF dir = "in" THEN entry.in ELSE entry.out

\* the ceiling keys the interfaces of a call have under the names in force
KeysOf(call, names) ==
    {CeilingKey(get_display_name(names, i), dir) : i \in DOMAIN call.results, dir \in {"in", "out"}}

\* C26: when an interface id gets another display name, nothing in the ceiling
\* table changes at that moment; afterwards its dynamic ceiling starts under
\* the '<new name>-in/-out' keys from the floor (the first 'ok' call gives
\* max(floor, rate), not the value reached under the old name), the entries
\* under names no longer in force stay as they are, and an interface id with a
\* manual override gets no dynamic entry under the new name either.
C26_RenameRestartsCeiling ==
    [][/\ interface_names' # interface_names
            => /\ max_bandwidth' = max_bandwidth
               /\ manual_max_bandwidth' = manual_max_bandwidth
       /\ \A key \in (DOMAIN max_bandwidth') \ (DOMAIN max_bandwidth) :
             \E i \in DOMAIN last_call'.results : \E dir \in {"in", "out"} :
                /\ key = CeilingKey(get_display_name(interface_names, i), dir)
                /\ i \notin DOMAIN manual_max_bandwidth
                /\ last_call'.results[i].status = "ok"
                /\ RateEq(max_bandwidth'[key],
                          RateMax(Mbps(min_dynamic_maxbw), DirRate(last_call'.results[i], dir)))
       /\ \A key \in DOMAIN max_bandwidth :
             /\ key \in DOMAIN max_bandwidth'
             /\ key \notin KeysOf(last_call', interface_names)
                   => max_bandwidth'[key] = max_bandwidth[key]
       /\ \A id \in DOMAIN manual_max_bandwidth : \A dir \in {"in", "out"} :
             CeilingKey(get_display_name(interface_names', id), dir) \notin DOMAIN max_bandwidth']_vars

\* wan was renamed after its ceiling had risen above the floor, and has since
\* been polled: the old entry keeps its value, the new one stands at the floor;
\* lan, which has a manual override, was renamed and polled as well
C26_Witness ==
    /\ interface_names_fetched
    /\ get_display_name(interface_names, "wan") = "UPLINK"
    /\ get_display_name(interface_names, "lan") = "OFFICE"
    /\ \E old \in {"wan", "WAN"} :
          /\ CeilingKey(old, "out") \in DOMAIN max_bandwidth
          /\ RateLess(Mbps(min_dynamic_maxbw), max_bandwidth[CeilingKey(old, "out")])
    /\ CeilingKey("UPLINK", "out") \in DOMAIN max_bandwidth
    /\ max_bandwidth[CeilingKey("UPLINK", "out")] = Mbps(min_dynamic_maxbw)
    /\ last_call.called /\ "lan" \in DOMAIN last_call.results
    /\ last_call.results["lan"].status = "ok"
    /\ last_call.results["lan"].display_name = "OFFICE"

\* C27: in the gateway monitor a connection error or timeout raised while a
\* target is logged in to or fetched from does not stop the poll loop: the
\* loop moves on to the next section and the process keeps running.
C27_GatewayLoopSurvives ==
    \A i \in DOMAIN gw_main.events :
        gw_main.events[i] = "connection_error"
            => /\ gw_main.idx > i
               /\ gw_main.pc # "crashed"

\* C28: in daemon mode of the bandwidth monitor, whenever a target
\* authenticates while the cached interface names are older than 300 s,
\* get_interface_names is called, in every cycle of the process and not only
\* on the first such occasion.
C28_NamesRefetchedWhenStale ==
    [][(/\ bw_main.daemon_mode /\ bw_main.pc = "poll"
        /\ Len(bw_main'.polled) = Len(bw_main.polled) + 1
        /\ last_login'.session # None
        /\ "any_pfsense" \in DOMAIN bw_main.names_last_updated
        /\ clock - bw_main.names_last_updated["any_pfsense"] > INTERFACE_REFRESH_INTERVAL)
          => bw_main'.names_requested[Len(bw_main'.polled)]]_vars

\* C29: started without --daemon, each monitor makes one poll cycle over all
\* configured targets and then ends without having slept.
C29_SingleRun ==
    /\ (gw_main.pc # "not_started" /\ ~gw_main.daemon_mode)
          => /\ gw_main.cycle = 1 /\ gw_main.slept = 0 /\ clock = 0
             /\ gw_main.pc \in {"exited", "crashed"} => gw_main.polled = GwTargets
    /\ (bw_main.pc # "not_started" /\ ~bw_main.daemon_mode)
          => /\ bw_main.cycle = 1 /\ ~Has(bw_main.done.steps, "sleep") /\ clock = 0
             /\ bw_main.pc \in {"exited", "crashed"} => bw_main.polled = BwTargets

\* a monitor started without --daemon never sleeps and never starts a second
\* cycle
SingleRunNeverSleeps ==
    /\ (gw_main.pc # "not_started" /\ ~gw_main.daemon_mode)
          => gw_main.cycle = 1 /\ gw_main.slept = 0 /\ clock = 0
    /\ (bw_main.pc # "not_started" /\ ~bw_main.daemon_mode)
          => bw_main.cycle = 1 /\ ~Has(bw_main.done.steps, "sleep") /\ clock = 0

-----------------------------------------------------------------------------
(* Properties of the gateway colours *)

\* word occurs in str, each letter in either case
OccursAnyCase(str, word) ==
    \E i \in 1..(Len(str) - Len(word) + 1) :
        \A k \in DOMAIN word : str[i + k - 1] \in {word[k], upper_char(word[k])}

\* C30: a gateway row is danger (order 2) whenever its status contains
\* 'offline' in any letter case, whatever the loss; otherwise warning (order 1)
\* when the status contains 'packetloss' or the loss is not exactly '0.0%';
\* otherwise success (order 0).
C30_StatusColor ==
    gw_main.gateway.parsed
        => LET row == gw_main.gateway
               offline == OccursAnyCase(row.status, OfflineWord)
               degraded == OccursAnyCase(row.status, PacketlossWord) \/ row.loss # "0.0%"
           IN /\ offline => (row.color.color_class = "table-danger" /\ row.color.status_order = 2)
              /\ (~offline /\ degraded)
                    => (row.color.color_class = "table-warning" /\ row.color.status_order = 1)
              /\ (~offline /\ ~degraded)
                    => (row.color.color_class = "table-success" /\ row.color.status_order = 0)
              /\ row.color.status_order = 0 => (~offline /\ ~degraded)

\* a gateway reported OFFLINE in capitals with a loss of 0.0% is danger
C30_Witness ==
    /\ gw_main.gateway.parsed
    /\ gw_main.gateway.status = upper(OfflineWord)
    /\ gw_main.gateway.loss = "0.0%"
    /\ gw_main.gateway.color.status_order = 2


\* C31: every entry calculate_bandwidth returns with a status other than 'ok'
\* has in = 0 and out = 0, also when it was tagged 'missing_values' or 'error'
\* after the rate of the in direction had been computed.
C31_NotOkIsZero ==
    last_call.called
        => \A i \in DOMAIN last_call.results :
              last_call.results[i].status # "ok"
                 => /\ RateEq(last_call.results[i].in, ZeroRate)
                    /\ RateEq(last_call.results[i].out, ZeroRate)


\* C32: an interface whose result is not 'ok' leaves the whole dynamic ceiling
\* table as it was: an entry of the table is created or raised only under the
\* key of an interface the call ended with status 'ok', no entry is removed,
\* and a call without an 'ok' result changes nothing in the table.
C32_CeilingOnlyByOk ==
    [][/\ DOMAIN max_bandwidth \subseteq DOMAIN max_bandwidth'
       /\ \A key \in DOMAIN max_bandwidth' :
             (key \notin DOMAIN max_bandwidth \/ max_bandwidth'[key] # max_bandwidth[key])
                => \E i \in DOMAIN last_call'.results : \E dir \in {"in", "out"} :
                      /\ key = CeilingKey(get_display_name(interface_names, i), dir)
                      /\ last_call'.results[i].status = "ok"
       /\ (\A i \in DOMAIN last_call'.results : last_call'.results[i].status # "ok")
             => max_bandwidth' = max_bandwidth]_vars

\* wan ended as 'error' or 'missing_values' after its in rate had been
\* computed above what the table holds for it, and the table did not move
C32_Witness ==
    /\ last_call.called /\ last_call.had_previous
    /\ "wan" \in DOMAIN last_call.results
    /\ last_call.results["wan"].status \in {"error", "missing_values"}
    /\ RateLess(DictGet(max_bandwidth, CeilingKey(get_display_name(interface_names, "wan"), "in"),
                        Mbps(min_dynamic_maxbw)),
                last_call.results["wan"].in)


-----------------------------------------------------------------------------
(* Further properties of the credential store *)

\* C33: with the gateway monitor and the bandwidth monitor running at the same
\* time on one auth file, the credential a successful login of one process
\* stored for a target is still in the persisted store, as it was stored,
\* after the other process completes a successful login for another target.
C33_NoLostCredential ==
    [][(/\ last_login.called /\ last_login.outcome = "logged_in"
        /\ last_login'.outcome = "logged_in"
        /\ last_login'.script # last_login.script
        /\ last_login'.pfsense_name # last_login.pfsense_name
        /\ auth_file' # auth_file
        /\ last_login.pfsense_name \in DOMAIN EntriesOf(auth_file))
          => /\ last_login.pfsense_name \in DOMAIN EntriesOf(auth_file')
             /\ EntriesOf(auth_file')[last_login.pfsense_name]
                   = EntriesOf(auth_file)[last_login.pfsense_name]]_vars


-----------------------------------------------------------------------------
(* Further properties of the history store *)

\* C34: when no reporting target has a strictly positive sum of 'ok' rates,
\* update_bandwidth_history takes the first reporting target in poll order;
\* among targets with the same highest positive sum it takes the one polled
\* earliest; the points appended are those of the target taken.
C34_EarliestOfHighest ==
    (last_update.called /\ last_update.all_bandwidth # <<>>)
        => LET all == last_update.all_bandwidth
               a == last_update.active
               positive == {i \in DOMAIN all : RateLess(ZeroRate, Aggregate(all[i]))}
           IN /\ a \in DOMAIN all
              /\ positive = {} => a = 1
              /\ positive # {}
                    => /\ \A i \in DOMAIN all : RateLeq(Aggregate(all[i]), Aggregate(all[a]))
                       /\ \A j \in DOMAIN all : j < a => RateLess(Aggregate(all[j]), Aggregate(all[a]))
              /\ AppendedPoints = PointsOf(all[a])

\* three targets reported, the second and the third with the same highest
\* sum but different rates: the second was taken
C34_Witness ==
    /\ last_update.called /\ Len(last_update.all_bandwidth) = 3
    /\ last_update.active = 2
    /\ RateEq(Aggregate(last_update.all_bandwidth[2]), Aggregate(last_update.all_bandwidth[3]))
    /\ PointsOf(last_update.all_bandwidth[3]) # PointsOf(last_update.all_bandwidth[2])
    /\ AppendedPoints = PointsOf(last_update.all_bandwidth[2])


\* C35: a login attempt that fails because no CSRF token is found, or because
\* the login response does not contain 'Dashboard', leaves the persisted
\* credential store as it was and returns no session.
C35_FailedLoginFrame ==
    [][(last_login' # last_login /\ last_login'.outcome \in {"no_csrf", "login_failed"})
          => /\ auth_file' = auth_file
             /\ last_login'.session = None]_vars

\* a rejected login for a target whose stored credential had expired: the
\* expired entry is still in the store
C35_Witness ==
    /\ last_login.called /\ last_login.outcome = "login_failed"
    /\ last_login.pfsense_name \in DOMAIN EntriesOf(auth_file)
    /\ ~Unexpired(auth_file, last_login.pfsense_name, last_login.now)
    /\ auth_file = last_login.before
    /\ last_login.session = None


\* C36: starting from an empty history, after any sequence of
\* update_bandwidth_history calls the in and the out series of every interface
\* have the same length and, position by position, the same timestamps.
C36_DirectionsAligned ==
    \A dn \in DOMAIN StoredSeries :
        /\ Len(StoredSeries[dn].in) = Len(StoredSeries[dn].out)
        /\ \A k \in DOMAIN StoredSeries[dn].in :
              StoredSeries[dn].in[k][1] = StoredSeries[dn].out[k][1]

\* two interfaces with series of different lengths, the longer one holding
\* points of two updates whose in and out values differ
C36_Witness ==
    /\ last_update.called
    /\ {"WAN", "LAN"} \subseteq DOMAIN StoredSeries
    /\ Len(StoredSeries["WAN"].in) = 2 /\ Len(StoredSeries["WAN"].out) = 2
    /\ Len(StoredSeries["LAN"].in) = 1 /\ Len(StoredSeries["LAN"].out) = 1
    /\ StoredSeries["WAN"].in[1][2] # StoredSeries["WAN"].out[1][2]
    /\ StoredSeries["WAN"].in[2][1] = StoredSeries["WAN"].out[2][1]


-----------------------------------------------------------------------------
(* Properties of the data store *)

\* C37: load_stored_data after save_stored_data, as at a restart of the
\* process, returns the previous-snapshot map, the interface names, the
\* real-interface map and the ceiling table that were saved; the first poll of
\* a target after the restart is computed against the persisted snapshot and
\* does not go through the no-prior-data state again.
C37_RestartKeepsBaseline ==
    [][/\ (last_store'.restarted /\ last_store'.had_file)
            => /\ last_store'.loaded.previous_data = last_store'.at_restart.previous_data
               /\ last_store'.loaded.interface_names = last_store'.at_restart.interface_names
               /\ last_store'.loaded.real_interfaces = last_store'.at_restart.real_interfaces
               /\ last_store'.loaded.max_bandwidth = last_store'.at_restart.max_bandwidth
       /\ (/\ last_store.restarted /\ last_store.had_file
           /\ ~last_call.called /\ last_call'.called
           /\ last_call'.pfsense_name \in DOMAIN last_store.at_restart.previous_data)
            => /\ last_call'.had_previous
               /\ last_call'.prev_data
                     = last_store.at_restart.previous_data[last_call'.pfsense_name]
               /\ DOMAIN last_call'.results = DOMAIN last_call'.current_data]_vars

\* a restart on a store that holds snapshots of both targets, names, device
\* names and ceilings, followed by a poll that produced a rate
C37_Witness ==
    /\ last_store.restarted /\ last_store.had_file
    /\ DOMAIN last_store.loaded.previous_data = Targets
    /\ last_store.loaded.max_bandwidth # EmptyDict
    /\ last_store.loaded.interface_names # EmptyDict
    /\ last_store.loaded.real_interfaces # EmptyDict
    /\ last_call.called /\ last_call.had_previous
    /\ \E i \in DOMAIN last_call.results : last_call.results[i].status = "ok"

====
